---------------------------- MODULE Spec2Model ----------------------------
(***************************************************************************)
(* A model of the choir-score preparation tools of musescore-choir-plugins. *)
(*                                                                         *)
(* Seven parts of the repository are modelled, each with its own           *)
(* specification over the same variables:                                  *)
(*   SpecCodec  - the lyric interchange codec (src/src/clean_score/        *)
(*                lyric_txt.py): export, text import, array import;        *)
(*   SpecSplit  - the voice splitting pipeline (src/scripts/clean_score/   *)
(*                main.py and the passes it calls);                        *)
(*   SpecRepair - the corrupted-measure repair (src/scripts/clean_score/   *)
(*                src/corrupted_measures.py);                              *)
(*   SpecParts  - the part-type detection (src/src/clean_score/utils/      *)
(*                part_types.py);                                          *)
(*   SpecDuration - the duration resolver (resolve_duration of             *)
(*                src/scripts/clean_score/src/utils.py);                   *)
(*   SpecLookup - the lyric lookup (find_lyric of src/src/clean_score/     *)
(*                utils/lyrics.py);                                        *)
(*   SpecSlots  - the three scans of the codec that decide which chords    *)
(*                carry a syllable, on one document.                       *)
(*                                                                         *)
(* A document is a sequence of staffs; a staff is a record with an id and  *)
(* a sequence of measures; a measure is a record with a sequence of voices *)
(* (and a len attribute where the repair needs it); a voice is a sequence  *)
(* of elements; an element is a record with a tag.  Text is a sequence of  *)
(* one-character strings, so that splitting, stripping and joining are     *)
(* computed the way the Python code computes them.                         *)
(***************************************************************************)
EXTENDS Integers, Sequences, FiniteSets, TLC

VARIABLES
    score,        \* the document being edited (sequence of Score/Staff elements)
    orig,         \* the document as loaded, before any operation
    txt,          \* codec: the exported or imported text (a sequence of lines)
    by_measure,   \* codec: the per-measure token table applied by the last import
    phase,        \* which operation has run; in main(), the pass reached
    score_parts,  \* split: the Part elements of the document
    STAFF_MAPPING,                      \* split: original id -> duplicate id
    REVERSED_VOICES_BY_STAFF_MEASURE,   \* split: staff id -> measure index -> True
    LYRICS_BY_TIMEPOS,                  \* split: <<measure, time>> -> recorded lyrics
    cursor,       \* split: the item of STAFF_MAPPING a loop of main() has reached
    part_info,    \* part types: staff id -> clef type, range, part name and index
    resolved,     \* durations: the call of resolve_duration made and its outcome
    previous,     \* split: the tables as main() found them (history, never read)
    looked_up,    \* lyrics: the calls of find_lyric made so far, with what they returned
    slot_counts   \* codec: what _get_chord_counts_per_measure returned

codecVars == <<score, orig, txt, by_measure, phase>>

\* src.globals.GLOBALS: the one context through which main() and the passes
\* reach the three tables; assigning a table replaces it for all of them
GLOBALS == <<STAFF_MAPPING, REVERSED_VOICES_BY_STAFF_MEASURE, LYRICS_BY_TIMEPOS>>

splitVars == <<score_parts, GLOBALS, cursor>>

utilVars == <<part_info, resolved, previous, looked_up, slot_counts>>

vars == <<codecVars, splitVars, utilVars>>

\* The codec, the repair and the pipeline leave the utility results alone
NoUtilState ==
    /\ part_info = <<>>
    /\ resolved = <<>>
    /\ previous = <<>>
    /\ looked_up = <<>>
    /\ slot_counts = <<>>

\* The codec and the repair alone never touch the tables of the pipeline
NoSplitState ==
    /\ score_parts = <<>>
    /\ STAFF_MAPPING = <<>>
    /\ REVERSED_VOICES_BY_STAFF_MEASURE = <<>>
    /\ LYRICS_BY_TIMEPOS = <<>>
    /\ cursor = 1

---------------------------------------------------------------------------
(* Generic helpers.                                                        *)

Max2(a, b) == IF a >= b THEN a ELSE b
Min2(a, b) == IF a <= b THEN a ELSE b

RECURSIVE SeqMax(_)
SeqMax(s) == IF s = <<>> THEN 0 ELSE Max2(Head(s), SeqMax(Tail(s)))

SetMax(S) == CHOOSE x \in S : \A y \in S : y <= x

\* The elements of a finite set of integers in ascending order (Python sorted()).
RECURSIVE SortedSeq(_)
SortedSeq(S) ==
    IF S = {} THEN <<>>
    ELSE LET m == CHOOSE x \in S : \A y \in S : x <= y
         IN  <<m>> \o SortedSeq(S \ {m})

RECURSIVE Flatten(_)
Flatten(ss) == IF ss = <<>> THEN <<>> ELSE Head(ss) \o Flatten(Tail(ss))

Last(s) == s[Len(s)]

---------------------------------------------------------------------------
(* Python str operations on sequences of characters.                       *)

EndsWith(s, c) == Len(s) > 0 /\ s[Len(s)] = c

StartsWith(s, c) == Len(s) > 0 /\ s[1] = c

\* str.rstrip(c)
RECURSIVE RStrip(_, _)
RStrip(s, c) == IF EndsWith(s, c) THEN RStrip(SubSeq(s, 1, Len(s) - 1), c) ELSE s

\* str.lstrip(c)
RECURSIVE LStrip(_, _)
LStrip(s, c) == IF StartsWith(s, c) THEN LStrip(Tail(s), c) ELSE s

\* str.strip(): whitespace off both ends
Strip(s) == LStrip(RStrip(s, " "), " ")

\* str.split(): split on runs of whitespace, no empty pieces
RECURSIVE SplitWsAcc(_, _, _)
SplitWsAcc(s, cur, out) ==
    IF s = <<>> THEN (IF cur = <<>> THEN out ELSE Append(out, cur))
    ELSE IF Head(s) = " "
         THEN SplitWsAcc(Tail(s), <<>>, IF cur = <<>> THEN out ELSE Append(out, cur))
         ELSE SplitWsAcc(Tail(s), Append(cur, Head(s)), out)

SplitWs(s) == SplitWsAcc(s, <<>>, <<>>)

\* str.split(c): split on every c, empty pieces kept
RECURSIVE SplitOnAcc(_, _, _, _)
SplitOnAcc(s, c, cur, out) ==
    IF s = <<>> THEN Append(out, cur)
    ELSE IF Head(s) = c
         THEN SplitOnAcc(Tail(s), c, <<>>, Append(out, cur))
         ELSE SplitOnAcc(Tail(s), c, Append(cur, Head(s)), out)

SplitOn(s, c) == SplitOnAcc(s, c, <<>>, <<>>)

\* sep.join(parts)
RECURSIVE JoinWith(_, _)
JoinWith(parts, sep) ==
    IF parts = <<>> THEN <<>>
    ELSE IF Len(parts) = 1 THEN parts[1]
    ELSE parts[1] \o sep \o JoinWith(Tail(parts), sep)

HYPHEN == <<"-">>
UNDERSCORE == <<"_">>

---------------------------------------------------------------------------
(* Lyric interchange codec: element predicates.                            *)
(*                                                                         *)
(* A codec Chord is [tag |-> "Chord", spanners, lyrics]: spanners is the   *)
(* sequence of its Spanner elements in document order, each                *)
(* [type |-> "Slur" | "Tie", mark |-> "next" | "prev"]; lyrics is the      *)
(* sequence of its Lyrics elements, each [no, syllabic, text] with no = "" *)
(* when the <no> element is absent.                                        *)

NoSpanner == [type |-> "none", mark |-> "none"]

\* chord.find(".//Spanner[@type=T]"): the FIRST spanner of that type
FindSpanner(chord, type) ==
    IF \E i \in 1..Len(chord.spanners) : chord.spanners[i].type = type
    THEN chord.spanners[CHOOSE i \in 1..Len(chord.spanners) :
            /\ chord.spanners[i].type = type
            /\ \A j \in 1..(i - 1) : chord.spanners[j].type # type]
    ELSE NoSpanner

is_slur_continuation(chord) == FindSpanner(chord, "Slur").mark = "prev"

is_tie_continuation(chord) == FindSpanner(chord, "Tie").mark = "prev"

is_continuation_no_lyric(chord) ==
    is_slur_continuation(chord) \/ is_tie_continuation(chord)

has_slur_start(chord) == FindSpanner(chord, "Slur").mark = "next"

has_tie_start(chord) == FindSpanner(chord, "Tie").mark = "next"

is_verse1(lyric) == Strip(lyric.no) = <<>>

\* The lyric export reads from a chord: <<found, syllabic, text>>.
get_verse1_lyric(chord) ==
    LET L == chord.lyrics
        v1s == {i \in 1..Len(L) : is_verse1(L[i])}
        v2s == {i \in 1..Len(L) : ~is_verse1(L[i]) /\ Strip(L[i].no) = <<"1">>}
        \* verse1 is the first verse-1 lyric; a later lyric reaches the elif
        \* only when it is not that first verse-1 lyric, and sets verse2 when
        \* its number is "1" (the last such wins)
        has1 == v1s # {}
        i1 == CHOOSE i \in v1s : \A j \in v1s : i <= j
        has2 == v2s # {}
        i2 == CHOOSE i \in v2s : \A j \in v2s : j <= i
    IN  IF has1 /\ (Strip(L[i1].text) # <<>> \/ L[i1].syllabic # "")
        THEN <<TRUE, L[i1].syllabic, Strip(L[i1].text)>>
        ELSE IF has2 THEN <<TRUE, L[i2].syllabic, Strip(L[i2].text)>>
        ELSE IF has1 THEN <<TRUE, L[i1].syllabic, Strip(L[i1].text)>>
        ELSE <<FALSE, "", <<>>>>

token_from_lyric(syllabic, text) ==
    Strip(text) \o (IF syllabic \in {"begin", "middle"} THEN HYPHEN ELSE <<>>)

\* _merge_tokens: fold the tokens left to right, gluing hyphenated neighbours
RECURSIVE MergeLoop(_, _, _)
MergeLoop(rest, cur, result) ==
    IF rest = <<>> THEN Append(result, cur)
    ELSE LET nxt == Head(rest)
         IN  IF EndsWith(cur, "-")
             THEN MergeLoop(Tail(rest),
                            RStrip(cur, "-") \o HYPHEN \o Strip(LStrip(nxt, "-")), result)
             ELSE IF StartsWith(nxt, "-")
             THEN MergeLoop(Tail(rest),
                            RStrip(cur, " ") \o HYPHEN \o Strip(LStrip(nxt, "-")), result)
             ELSE MergeLoop(Tail(rest), nxt, Append(result, cur))

merge_tokens(tokens) ==
    IF tokens = <<>> THEN <<>>
    ELSE JoinWith(MergeLoop(Tail(tokens), Head(tokens), <<>>), <<" ">>)


---------------------------------------------------------------------------
(* Dictionaries are functions on a finite set of keys.                     *)

EmptyDict == <<>>

DictSet(d, k, v) == [x \in (DOMAIN d) \cup {k} |-> IF x = k THEN v ELSE d[x]]

\* (d.get(k) or {})
DictGet(d, k, default) == IF k \in DOMAIN d THEN d[k] ELSE default

---------------------------------------------------------------------------
(* add_rests_to_empty_measures: a voice holding neither Chord nor Rest     *)
(* gets a Rest; a measure without voices gets a voice holding a Rest.      *)

FullMeasureRest == [tag |-> "Rest"]

AddRestsVoice(voice) ==
    IF \E i \in 1..Len(voice) : voice[i].tag \in {"Chord", "Rest"}
    THEN voice
    ELSE Append(voice, FullMeasureRest)

AddRestsMeasure(measure) ==
    IF measure.voices = <<>>
    THEN [measure EXCEPT !.voices = << <<FullMeasureRest>> >>]
    ELSE [measure EXCEPT !.voices =
            [v \in 1..Len(measure.voices) |-> AddRestsVoice(measure.voices[v])]]

add_rests_to_empty_measures(sc) ==
    [s \in 1..Len(sc) |->
        [sc[s] EXCEPT !.measures =
            [m \in 1..Len(sc[s].measures) |-> AddRestsMeasure(sc[s].measures[m])]]]

---------------------------------------------------------------------------
(* export_mscx_to_txt.                                                     *)

\* The scan of one voice-0 element sequence: the tokens of the measure.
RECURSIVE ExportVoice(_, _, _, _)
ExportVoice(els, tokens, slur_active, tie_active) ==
    IF els = <<>> THEN tokens
    ELSE LET el == Head(els)
             rest == Tail(els)
         IN  IF el.tag # "Chord"
             THEN ExportVoice(rest, tokens, slur_active, tie_active)
             ELSE IF is_continuation_no_lyric(el)
             THEN ExportVoice(rest, tokens,
                              IF is_slur_continuation(el) THEN FALSE ELSE slur_active,
                              IF is_tie_continuation(el) THEN FALSE ELSE tie_active)
             ELSE IF slur_active /\ ~has_slur_start(el) /\ ~is_slur_continuation(el)
             THEN ExportVoice(rest, tokens, slur_active, tie_active)
             ELSE IF tie_active /\ ~has_tie_start(el) /\ ~is_tie_continuation(el)
             THEN ExportVoice(rest, tokens, slur_active, tie_active)
             ELSE LET lyric == get_verse1_lyric(el)
                      tok == IF lyric[1] THEN token_from_lyric(lyric[2], lyric[3])
                             ELSE UNDERSCORE
                  IN  ExportVoice(rest, Append(tokens, tok),
                                  IF has_slur_start(el) THEN TRUE ELSE slur_active,
                                  IF has_tie_start(el) THEN TRUE ELSE tie_active)

export_measure_tokens(measure) == ExportVoice(measure.voices[1], <<>>, FALSE, FALSE)

\* by_measure_staff[measure_index][staff_id]: the staffs are walked in document
\* order, so of two staffs with one id the later one's tokens are kept
RECURSIVE ExportStaffs(_, _)
ExportStaffs(staffs, acc) ==
    IF staffs = <<>> THEN acc
    ELSE LET st == Head(staffs)
             upd == [m \in (DOMAIN acc) \cup (1..Len(st.measures)) |->
                        IF m \in 1..Len(st.measures)
                        THEN DictSet(DictGet(acc, m, EmptyDict), st.id,
                                     export_measure_tokens(st.measures[m]))
                        ELSE acc[m]]
         IN  ExportStaffs(Tail(staffs), upd)

HeaderLine(n) == [kind |-> "header", measure |-> n]

\* f"{sid} [{n_syllables}]: {merged}"
StaffLine(sid, n, rest) == [kind |-> "staff", staff |-> sid, count |-> n, rest |-> rest]

ExportBlock(bms, m) ==
    <<HeaderLine(m)>> \o
    LET sids == SortedSeq(DOMAIN bms[m])
    IN  [i \in 1..Len(sids) |->
            StaffLine(sids[i], Len(bms[m][sids[i]]), merge_tokens(bms[m][sids[i]]))]

\* The text is the sequence of its lines; measures are 1-based in the text.
export_mscx_to_txt(sc) ==
    LET withRests == add_rests_to_empty_measures(sc)
        bms == ExportStaffs(withRests, EmptyDict)
        ms == SortedSeq(DOMAIN bms)
    IN  Flatten([i \in 1..Len(ms) |-> ExportBlock(bms, ms[i])])

---------------------------------------------------------------------------
(* parse_txt.  A line of the text is one of                                *)
(*   [kind "header", measure]  "# Measure N"                               *)
(*   [kind "comment"]          any other line starting with #              *)
(*   [kind "staff", staff, count, rest]  "<id> [<n>]: <tokens>"            *)
(*   [kind "blank"]            an empty line                               *)
(*   [kind "nocolon"]          a line without a colon                      *)
(*   [kind "badstaff"]         a line whose left part is not a staff id    *)

\* The token loop of parse_txt and _tokenize_line
RECURSIVE TokenizeParts(_, _)
TokenizeParts(parts, tokens) ==
    IF parts = <<>> THEN tokens
    ELSE LET part == Head(parts)
         IN  IF part = UNDERSCORE
             THEN TokenizeParts(Tail(parts), Append(tokens, UNDERSCORE))
             ELSE IF tokens # <<>> /\ EndsWith(Last(tokens), "-")
             THEN TokenizeParts(Tail(parts),
                     [tokens EXCEPT ![Len(tokens)] =
                         RStrip(Last(tokens), "-") \o HYPHEN \o part])
             ELSE TokenizeParts(Tail(parts), Append(tokens, part))

tokenize_line(line) == TokenizeParts(SplitWs(line), <<>>)

\* current_measure = None: no header has been read yet
NoMeasure == -1

Flush(st) ==
    IF st.current_measure # NoMeasure /\ DOMAIN st.staff_lines # {}
    THEN [st EXCEPT !.blocks = Append(st.blocks,
                        [measure |-> st.current_measure, staff_lines |-> st.staff_lines]),
                    !.staff_lines = EmptyDict]
    ELSE st

ParseLine(st, line) ==
    CASE line.kind = "header" -> [Flush(st) EXCEPT !.current_measure = line.measure]
      [] line.kind = "comment" -> Flush(st)
      [] line.kind = "staff" ->
            [st EXCEPT !.staff_lines = DictSet(st.staff_lines, line.staff,
                                               tokenize_line(line.rest))]
      [] OTHER -> st

RECURSIVE ParseLines(_, _)
ParseLines(lines, st) ==
    IF lines = <<>> THEN Flush(st).blocks
    ELSE ParseLines(Tail(lines), ParseLine(st, Head(lines)))

\* The list of blocks, each [measure, staff_lines]
parse_txt(text) ==
    ParseLines(text, [blocks |-> <<>>, current_measure |-> NoMeasure,
                      staff_lines |-> EmptyDict])

\* {b["measure"]: b["staff_lines"] for b in blocks}: a later block replaces an
\* earlier one of the same measure
RECURSIVE BlocksToDict(_, _)
BlocksToDict(blocks, acc) ==
    IF blocks = <<>> THEN acc
    ELSE BlocksToDict(Tail(blocks),
                      DictSet(acc, Head(blocks).measure, Head(blocks).staff_lines))


---------------------------------------------------------------------------
(* Tokens and syllables.  A syllable is [syllabic, text]; the syllabic "_" *)
(* stands for a slot that gets no lyric.                                   *)

Syl(syllabic, text) == [syllabic |-> syllabic, text |-> text]

\* The syllables of the parts of one hyphenated token (the else branch)
PartSyllables(parts, first, raw_trailing_hyphen) ==
    LET n == Len(parts)
        one(i) ==
            LET p == Strip(parts[i])
            IN  IF p = <<>> THEN <<>>
                ELSE IF first /\ i = 1 THEN <<Syl("end", p)>>
                ELSE IF i = 1 THEN <<Syl("begin", p)>>
                ELSE IF i = n
                     THEN (IF raw_trailing_hyphen THEN <<Syl("begin", p)>>
                           ELSE <<Syl("end", p)>>)
                ELSE <<Syl("middle", p)>>
    IN  Flatten([i \in 1..n |-> one(i)])

TokenSyllables(tok, first) ==
    IF tok = UNDERSCORE THEN <<Syl("_", <<>>)>>
    ELSE LET raw_trailing_hyphen == EndsWith(Strip(tok), "-")
             parts == SplitOn(RStrip(Strip(tok), "-"), "-")
         IN  IF Len(parts) = 1
             THEN LET text == Strip(parts[1])
                  IN  IF first THEN <<Syl("end", text)>>
                      ELSE IF raw_trailing_hyphen THEN <<Syl("begin", text)>>
                      ELSE <<Syl("single", text)>>
             ELSE PartSyllables(parts, first, raw_trailing_hyphen)

\* _tokens_to_syllables(tokens, first_syllabic_continuation)
tokens_to_syllables(tokens, first_syllabic_continuation) ==
    Flatten([idx \in 1..Len(tokens) |->
                TokenSyllables(tokens[idx], first_syllabic_continuation /\ idx = 1)])

\* A variant that never reports a trailing hyphen
last_token_never_hyphen(tokens) == FALSE

\* _last_token_ends_with_hyphen
last_token_ends_with_hyphen(tokens) ==
    IF tokens = <<>> THEN FALSE
    ELSE LET last == Strip(Last(tokens))
         IN  last # UNDERSCORE /\ EndsWith(last, "-")

\* The inner while loop of _syllables_to_tokens after a "begin": returns
\* <<next index, token>>
RECURSIVE BeginRun(_, _, _)
BeginRun(syllables, i, parts) ==
    IF i > Len(syllables) THEN <<i, <<JoinWith(parts, HYPHEN) \o HYPHEN>> >>
    ELSE LET s2 == syllables[i]
         IN  IF s2.syllabic = "middle"
             THEN BeginRun(syllables, i + 1, Append(parts, s2.text))
             ELSE IF s2.syllabic = "end"
             THEN <<i + 1, <<JoinWith(Append(parts, s2.text), HYPHEN)>> >>
             ELSE <<i, <<>> >>

\* _syllables_to_tokens
RECURSIVE SylLoop(_, _, _)
SylLoop(syllables, i, tokens) ==
    IF i > Len(syllables) THEN tokens
    ELSE LET s == syllables[i]
         IN  IF s.syllabic = "_" THEN SylLoop(syllables, i + 1, Append(tokens, UNDERSCORE))
             ELSE IF s.syllabic \in {"single", "end", "middle"}
             THEN SylLoop(syllables, i + 1, Append(tokens, s.text))
             ELSE IF s.syllabic = "begin"
             THEN LET r == BeginRun(syllables, i + 1, <<s.text>>)
                  IN  SylLoop(syllables, r[1], tokens \o r[2])
             ELSE SylLoop(syllables, i + 1, tokens)

syllables_to_tokens(syllables) == SylLoop(syllables, 1, <<>>)

---------------------------------------------------------------------------
(* import_txt_into_mscx.                                                   *)

\* _clear_verse1_lyrics
clear_verse1_lyrics(chord) ==
    [chord EXCEPT !.lyrics = SelectSeq(chord.lyrics, LAMBDA l : ~is_verse1(l))]

\* _set_lyric: the verse-1 lyrics go, the new one is appended without <no>
set_lyric(chord, syllabic, text) ==
    [chord EXCEPT !.lyrics =
        Append(SelectSeq(chord.lyrics, LAMBDA l : ~is_verse1(l)),
               [no |-> <<>>, syllabic |-> syllabic, text |-> text])]

\* The loop over the elements of voice 0 of one measure
RECURSIVE ImportVoice(_, _, _, _, _, _)
ImportVoice(els, syllables, syl_index, slur_active, tie_active, done) ==
    IF els = <<>> THEN done
    ELSE LET el == Head(els)
             rest == Tail(els)
         IN  IF el.tag # "Chord"
             THEN ImportVoice(rest, syllables, syl_index, slur_active, tie_active,
                              Append(done, el))
             ELSE IF is_continuation_no_lyric(el)
             THEN ImportVoice(rest, syllables, syl_index,
                              IF is_slur_continuation(el) THEN FALSE ELSE slur_active,
                              IF is_tie_continuation(el) THEN FALSE ELSE tie_active,
                              Append(done, clear_verse1_lyrics(el)))
             ELSE IF slur_active /\ ~has_slur_start(el) /\ ~is_slur_continuation(el)
             THEN ImportVoice(rest, syllables, syl_index, slur_active, tie_active,
                              Append(done, clear_verse1_lyrics(el)))
             ELSE IF tie_active /\ ~has_tie_start(el) /\ ~is_tie_continuation(el)
             THEN ImportVoice(rest, syllables, syl_index, slur_active, tie_active,
                              Append(done, clear_verse1_lyrics(el)))
             ELSE IF syl_index > Len(syllables)
             THEN ImportVoice(rest, syllables, syl_index, slur_active, tie_active,
                              Append(done, clear_verse1_lyrics(el)))
             ELSE LET syl == syllables[syl_index]
                      newEl == IF syl.syllabic = "_" THEN clear_verse1_lyrics(el)
                               ELSE set_lyric(el, syl.syllabic, syl.text)
                  IN  ImportVoice(rest, syllables, syl_index + 1,
                                  IF has_slur_start(el) THEN TRUE ELSE slur_active,
                                  IF has_tie_start(el) THEN TRUE ELSE tie_active,
                                  Append(done, newEl))

\* A variant that treats a measure the table does not name as one with an
\* empty token list
import_measure_everywhere(measure, staff_id, one_based, bm) ==
    IF measure.voices = <<>> THEN measure
    ELSE [measure EXCEPT !.voices[1] =
            ImportVoice(measure.voices[1],
                tokens_to_syllables(
                    DictGet(DictGet(bm, one_based, EmptyDict), staff_id, <<>>), FALSE),
                1, FALSE, FALSE, <<>>)]

\* One measure of one staff: edited only when the table names it
import_measure(measure, staff_id, one_based, bm) ==
    IF ~(one_based \in DOMAIN bm /\ staff_id \in DOMAIN bm[one_based])
    THEN measure
    ELSE LET staff_tokens == bm[one_based][staff_id]
             prev_measure_tokens ==
                 DictGet(DictGet(bm, one_based - 1, EmptyDict), staff_id, <<>>)
             first_syllabic_continuation ==
                 last_token_ends_with_hyphen(prev_measure_tokens)
             syllables == tokens_to_syllables(staff_tokens, first_syllabic_continuation)
         IN  IF measure.voices = <<>> THEN measure
             ELSE [measure EXCEPT !.voices[1] =
                      ImportVoice(measure.voices[1], syllables, 1, FALSE, FALSE, <<>>)]

\* _remove_verse2_plus, then the final sweep over every chord of the score
remove_verse2_plus_el(el) ==
    IF el.tag = "Chord"
    THEN [el EXCEPT !.lyrics = SelectSeq(el.lyrics, LAMBDA l : is_verse1(l))]
    ELSE el

sweep_el(el) ==
    IF el.tag = "Chord" /\ is_continuation_no_lyric(el) THEN clear_verse1_lyrics(el)
    ELSE el

MapElements(sc, F(_)) ==
    [s \in 1..Len(sc) |->
        [sc[s] EXCEPT !.measures =
            [m \in 1..Len(sc[s].measures) |->
                [sc[s].measures[m] EXCEPT !.voices =
                    [v \in 1..Len(sc[s].measures[m].voices) |->
                        [e \in 1..Len(sc[s].measures[m].voices[v]) |->
                            F(sc[s].measures[m].voices[v][e])]]]]]]

\* A variant that leaves the other verses in place
remove_verse2_plus_skipped(sc) == sc

remove_verse2_plus(sc) == MapElements(sc, remove_verse2_plus_el)

final_sweep(sc) == MapElements(sc, sweep_el)

\* Lines 595-665: apply the table to every staff, then the two clean-ups
apply_by_measure(sc, bm) ==
    LET edited ==
            [s \in 1..Len(sc) |->
                [sc[s] EXCEPT !.measures =
                    [m \in 1..Len(sc[s].measures) |->
                        import_measure(sc[s].measures[m], sc[s].id, m, bm)]]]
    IN  final_sweep(remove_verse2_plus(edited))

\* The table an import call works from: <<given, table>>.  data is
\* [kind |-> "txt", txt], [kind |-> "by_measure", by_measure] or [kind |-> "none"].
import_table(data) ==
    CASE data.kind = "by_measure" -> <<TRUE, data.by_measure>>
      [] data.kind = "txt" -> <<TRUE, BlocksToDict(parse_txt(data.txt), EmptyDict)>>
      [] OTHER -> <<FALSE, EmptyDict>>

import_txt_into_mscx(sc, data) ==
    LET withRests == add_rests_to_empty_measures(sc)
        t == import_table(data)
    IN  IF ~t[1] THEN withRests ELSE apply_by_measure(withRests, t[2])


---------------------------------------------------------------------------
(* The array form.  A payload is what json.loads makes of the file:        *)
(*   [kind "malformed"]            not JSON at all (json.loads raises)     *)
(*   [kind "value"]                JSON, but not a list                    *)
(*   [kind "list", rows]           a list of rows                          *)
(* and a row is [has_start, measure_start, parts] with parts the sequence  *)
(* of its <<key, text>> pairs other than measure_start, in file order.     *)

\* _get_chord_counts_per_measure: the scan of one voice-0 element sequence
RECURSIVE CountVoice(_, _, _, _)
CountVoice(els, count, slur_active, tie_active) ==
    IF els = <<>> THEN count
    ELSE LET el == Head(els)
             rest == Tail(els)
         IN  IF el.tag # "Chord"
             THEN CountVoice(rest, count, slur_active, tie_active)
             ELSE IF is_continuation_no_lyric(el)
             THEN CountVoice(rest, count,
                             IF is_slur_continuation(el) THEN FALSE ELSE slur_active,
                             IF is_tie_continuation(el) THEN FALSE ELSE tie_active)
             ELSE IF slur_active /\ ~has_slur_start(el) /\ ~is_slur_continuation(el)
             THEN CountVoice(rest, count, slur_active, tie_active)
             ELSE IF tie_active /\ ~has_tie_start(el) /\ ~is_tie_continuation(el)
             THEN CountVoice(rest, count, slur_active, tie_active)
             ELSE CountVoice(rest, count + 1,
                             IF has_slur_start(el) THEN TRUE ELSE slur_active,
                             IF has_tie_start(el) THEN TRUE ELSE tie_active)

\* out[staff_id][measure_1based] = count, for the measures that have a voice
RECURSIVE CountStaffs(_, _)
CountStaffs(staffs, out) ==
    IF staffs = <<>> THEN out
    ELSE LET st == Head(staffs)
             old == DictGet(out, st.id, EmptyDict)
             withVoice == {m \in 1..Len(st.measures) : st.measures[m].voices # <<>>}
             upd == [m \in (DOMAIN old) \cup withVoice |->
                        IF m \in withVoice
                        THEN CountVoice(st.measures[m].voices[1], 0, FALSE, FALSE)
                        ELSE old[m]]
         IN  CountStaffs(Tail(staffs),
                         IF withVoice = {} /\ st.id \notin DOMAIN out THEN out
                         ELSE DictSet(out, st.id, upd))

\* A count of every chord of voice 0, whatever its spanners
get_chord_counts_of_all_chords(sc) ==
    [id \in { sc[s].id : s \in 1..Len(sc) } |->
        LET st == sc[CHOOSE s \in 1..Len(sc) : sc[s].id = id]
        IN  [m \in {n \in 1..Len(st.measures) : st.measures[n].voices # <<>>} |->
                Len(SelectSeq(st.measures[m].voices[1], LAMBDA el : el.tag = "Chord"))]]

get_chord_counts_per_measure(sc) == CountStaffs(sc, EmptyDict)

\* parse_json_txt: <<raised, rows>>
parse_json_txt(payload) ==
    CASE payload.kind = "malformed" -> <<TRUE, <<>> >>
      [] payload.kind = "value" -> <<FALSE, <<>> >>
      [] OTHER ->
            IF Len(payload.rows) = 0 THEN <<FALSE, <<>> >>
            ELSE IF ~payload.rows[1].has_start THEN <<FALSE, <<>> >>
            ELSE <<FALSE, payload.rows>>

\* str.isdigit() and int() on a part key
Digits == <<"0", "1", "2", "3", "4", "5", "6", "7", "8", "9">>

IsDigit(s) == s # <<>> /\ \A i \in 1..Len(s) : \E d \in 1..10 : Digits[d] = s[i]

DigitVal(c) == (CHOOSE d \in 1..10 : Digits[d] = c) - 1

RECURSIVE ParseInt(_, _)
ParseInt(s, acc) == IF s = <<>> THEN acc ELSE ParseInt(Tail(s), 10 * acc + DigitVal(Head(s)))

\* DEFAULT_PART_TO_STAFF: <<has, staff id>> of part_to_staff.get(key)
DEFAULT_PART_TO_STAFF(key) ==
    CASE key = <<"S", "1">> -> <<TRUE, 1>>
      [] key = <<"S", "2">> -> <<TRUE, 2>>
      [] key = <<"A", "1">> -> <<TRUE, 3>>
      [] key = <<"A", "2">> -> <<TRUE, 4>>
      [] OTHER -> <<FALSE, 0>>

PartStaff(key) == IF IsDigit(key) THEN <<TRUE, ParseInt(key, 0)>> ELSE DEFAULT_PART_TO_STAFF(key)

\* row.get(part_key), "" when the row has no such key
RowText(row, key) ==
    IF \E i \in 1..Len(row.parts) : row.parts[i][1] = key
    THEN row.parts[CHOOSE i \in 1..Len(row.parts) : row.parts[i][1] = key][2]
    ELSE <<>>

\* A measure_start that int() rejects (a text that is no number, a list)
BadStart == -2

\* lines.append((int(m_start), tokens)) raises: some key names a staff and
\* some row has such a measure_start
IntRaises(json_data) ==
    /\ \E p \in 1..Len(json_data[1].parts) : PartStaff(json_data[1].parts[p][1])[1]
    /\ \E i \in 1..Len(json_data) :
          json_data[i].has_start /\ json_data[i].measure_start = BadStart

\* lines.sort(key=m_start): a stable insertion sort
RECURSIVE InsertLine(_, _)
InsertLine(sorted, ln) ==
    IF sorted = <<>> THEN <<ln>>
    ELSE IF Head(sorted)[1] <= ln[1] THEN <<Head(sorted)>> \o InsertLine(Tail(sorted), ln)
    ELSE <<ln>> \o sorted

RECURSIVE SortLines(_, _)
SortLines(lines, sorted) ==
    IF lines = <<>> THEN sorted ELSE SortLines(Tail(lines), InsertLine(sorted, Head(lines)))

\* The <<m_start, tokens>> lines of one part key, sorted by m_start
PartLines(json_data, key) ==
    LET rows == SelectSeq(json_data, LAMBDA r : r.has_start)
    IN  SortLines([i \in 1..Len(rows) |->
                      <<rows[i].measure_start, tokenize_line(Strip(RowText(rows[i], key)))>>],
                  <<>>)

\* A variant that hands every measure the first syllables of the line again
RECURSIVE DistributeLineRepeating(_, _, _, _, _, _, _)
DistributeLineRepeating(m, m_end, syllables, syl_offset, counts, staff_id, bm) ==
    IF m >= m_end \/ syllables = <<>> THEN bm
    ELSE IF DictGet(counts, m, 0) <= 0
    THEN DistributeLineRepeating(m + 1, m_end, syllables, syl_offset, counts, staff_id, bm)
    ELSE DistributeLineRepeating(m + 1, m_end, syllables, syl_offset, counts, staff_id,
            DictSet(bm, m, DictSet(DictGet(bm, m, EmptyDict), staff_id,
                syllables_to_tokens(SubSeq(syllables, 1,
                    IF DictGet(counts, m, 0) <= Len(syllables)
                    THEN DictGet(counts, m, 0) ELSE Len(syllables))))))

\* for m in range(m_start, m_end): hand the next chunk of syllables to measure m
RECURSIVE DistributeLine(_, _, _, _, _, _, _)
DistributeLine(m, m_end, syllables, syl_offset, counts, staff_id, bm) ==
    IF m >= m_end \/ syl_offset >= Len(syllables) THEN bm
    ELSE LET n_slots == DictGet(counts, m, 0)
         IN  IF n_slots <= 0
             THEN DistributeLine(m + 1, m_end, syllables, syl_offset, counts, staff_id, bm)
             ELSE LET last == IF syl_offset + n_slots <= Len(syllables)
                              THEN syl_offset + n_slots ELSE Len(syllables)
                      chunk == SubSeq(syllables, syl_offset + 1, last)
                      upd == DictSet(bm, m, DictSet(DictGet(bm, m, EmptyDict), staff_id,
                                                    syllables_to_tokens(chunk)))
                  IN  DistributeLine(m + 1, m_end, syllables, last, counts, staff_id, upd)

\* for line_idx, (m_start, tokens) in enumerate(lines)
RECURSIVE DistributeLines(_, _, _, _, _, _)
DistributeLines(lines, line_idx, prev_trailing_hyphen, counts, staff_id, bm) ==
    IF line_idx > Len(lines) THEN bm
    ELSE LET m_start == lines[line_idx][1]
             tokens == lines[line_idx][2]
             syllables == tokens_to_syllables(tokens, prev_trailing_hyphen)
             m_end == IF line_idx + 1 <= Len(lines) THEN lines[line_idx + 1][1]
                      ELSE IF DOMAIN counts # {} THEN SetMax(DOMAIN counts) + 1
                      ELSE m_start + 1
         IN  DistributeLines(lines, line_idx + 1, last_token_ends_with_hyphen(tokens),
                             counts, staff_id,
                             DistributeLine(m_start, m_end, syllables, 0, counts, staff_id, bm))

\* for part_key in part_keys
RECURSIVE DistributeParts(_, _, _, _)
DistributeParts(keys, json_data, chord_counts, bm) ==
    IF keys = <<>> THEN bm
    ELSE LET sid == PartStaff(Head(keys))
         IN  IF ~sid[1] THEN DistributeParts(Tail(keys), json_data, chord_counts, bm)
             ELSE DistributeParts(Tail(keys), json_data, chord_counts,
                     DistributeLines(PartLines(json_data, Head(keys)), 1, FALSE,
                                     DictGet(chord_counts, sid[2], EmptyDict), sid[2], bm))

json_lines_to_by_measure(json_data, chord_counts) ==
    DistributeParts([i \in 1..Len(json_data[1].parts) |-> json_data[1].parts[i][1]],
                    json_data, chord_counts, EmptyDict)

\* The staff ids the part keys of the first row name, in the order of the keys:
\* the insertion order of every by_measure[m] (part keys naming different
\* staffs)
RECURSIVE StaffOrder(_)
StaffOrder(keys) ==
    IF keys = <<>> THEN <<>>
    ELSE IF PartStaff(Head(keys))[1]
    THEN <<PartStaff(Head(keys))[2]>> \o StaffOrder(Tail(keys))
    ELSE StaffOrder(Tail(keys))

\* split.index(staff_id), 0-based
SplitIndex(split, staff_id) ==
    (CHOOSE i \in 1..Len(split) :
        split[i] = staff_id /\ \A j \in 1..(i - 1) : split[j] # staff_id) - 1

\* output_ids of one input part
output_ids(staff_id, split) ==
    IF \E i \in 1..Len(split) : split[i] = staff_id
    THEN <<staff_id + SplitIndex(split, staff_id),
           staff_id + SplitIndex(split, staff_id) + 1>>
    ELSE <<staff_id>>

\* for out_id in output_ids: new_by_measure[measure][out_id] = list(tokens)
RECURSIVE WriteOutputs(_, _, _)
WriteOutputs(ids, tokens, out) ==
    IF ids = <<>> THEN out
    ELSE WriteOutputs(Tail(ids), tokens, DictSet(out, Head(ids), tokens))

\* for staff_id, tokens in staff_lines.items(), in insertion order
RECURSIVE SplitStaffLines(_, _, _, _)
SplitStaffLines(order, staff_lines, split, out) ==
    IF order = <<>> THEN out
    ELSE IF Head(order) \notin DOMAIN staff_lines
    THEN SplitStaffLines(Tail(order), staff_lines, split, out)
    ELSE SplitStaffLines(Tail(order), staff_lines, split,
            WriteOutputs(output_ids(Head(order), split), staff_lines[Head(order)], out))

\* _apply_split_to_by_measure; order is the insertion order of the staff ids
apply_split_to_by_measure(bm, split, order) ==
    IF split = <<>> THEN bm
    ELSE [m \in DOMAIN bm |-> SplitStaffLines(order, bm[m], split, EmptyDict)]

\* The table the array form is turned into, before and after the split
json_table(sc, json_data) ==
    json_lines_to_by_measure(json_data,
        get_chord_counts_per_measure(add_rests_to_empty_measures(sc)))

split_table(sc, json_data, split) ==
    apply_split_to_by_measure(json_table(sc, json_data), split,
        StaffOrder([i \in 1..Len(json_data[1].parts) |-> json_data[1].parts[i][1]]))

\* import_json_txt_into_mscx: <<outcome, document, table>>
import_json_txt_into_mscx(sc, payload, split) ==
    LET withRests == add_rests_to_empty_measures(sc)
        parsed == parse_json_txt(payload)
    IN  IF parsed[1] THEN <<"raised", withRests, EmptyDict>>
        ELSE IF parsed[2] = <<>> THEN <<"nothing", withRests, EmptyDict>>
        ELSE IF IntRaises(parsed[2]) THEN <<"raised", withRests, EmptyDict>>
        ELSE <<"applied",
               import_txt_into_mscx(withRests,
                    [kind |-> "by_measure",
                     by_measure |-> split_table(sc, parsed[2], split)]),
               split_table(sc, parsed[2], split)>>

---------------------------------------------------------------------------
(* The documents and texts the codec is run on.                            *)

\* Total number of chords of staff 1, spread over its two measures
MaxChords == 3

Spn(type, mark) == [type |-> type, mark |-> mark]
Lyr(no, syllabic, text) == [no |-> no, syllabic |-> syllabic, text |-> text]
CodecChord(spanners, lyrics) == [tag |-> "Chord", spanners |-> spanners, lyrics |-> lyrics]

V1(role) == Lyr(<<>>, role, <<"a">>)
V2 == Lyr(<<"1">>, "single", <<"x">>)

\* The chords staff 1 is built from: plain chords with each verse-1 role, with
\* no lyric and with a verse-2 lyric only; a slur start; a slur end carrying a
\* lyric; the middle note of a tie chain (MuseScore writes the Tie spanner of
\* the tie it starts before the Tie spanner of the tie it ends).
ChordKinds ==
    { CodecChord(<<>>, <<>>),
      CodecChord(<<>>, <<V1("single")>>),
      CodecChord(<<>>, <<V1("begin")>>),
      CodecChord(<<>>, <<V1("middle")>>),
      CodecChord(<<>>, <<V1("end")>>),
      CodecChord(<<>>, <<V2>>),
      CodecChord(<<Spn("Slur", "next")>>, <<V1("single")>>),
      CodecChord(<<Spn("Slur", "prev")>>, <<V1("single")>>),
      CodecChord(<<Spn("Tie", "next"), Spn("Tie", "prev")>>, <<>>) }

CodecMeasure(voices) == [voices |-> voices]

\* Staff 2 is the same in every document: a measure with a second voice, a
\* slur end carrying lyrics of both verses, and a measure without any voice.
OtherStaff ==
    [id |-> 2,
     measures |-> <<
        CodecMeasure(<< <<CodecChord(<<>>, <<V1("single"), V2>>),
                          CodecChord(<<Spn("Slur", "prev")>>, <<V1("single"), V2>>)>>,
                        <<CodecChord(<<>>, <<V1("single"), V2>>)>> >>),
        CodecMeasure(<<>>) >>]

\* Staff 1: n chords, the first k in measure 1, the others in measure 2
CodecScores ==
    { << [id |-> 1,
          measures |-> << CodecMeasure(<< SubSeq(cs, 1, k) >>),
                          CodecMeasure(<< SubSeq(cs, k + 1, Len(cs)) >>) >>],
         OtherStaff >> :
        cs \in [1..MaxChords -> ChordKinds], k \in 1..(MaxChords - 1) }

\* The token lines an imported text gives staff 1 (nothing: no line)
NoLine == <<"!">>
Measure1Lines ==
    { NoLine, <<"c">>, <<"c", "-">>, <<"c", " ", "d", "-">> }
Measure2Lines ==
    { NoLine, <<"d">>, <<"d", "-">>, <<"d", "-", "e">>, <<"_", " ", "d">>,
      <<"d", " ", "e">> }

TextBlock(m, line) ==
    IF line = NoLine THEN <<>> ELSE <<HeaderLine(m), StaffLine(1, 0, line)>>

\* Texts with lines that are not of the format: a line without a colon and a
\* line whose left part is no staff id; a # line that is no measure header
MalformedTexts ==
    { <<HeaderLine(1), StaffLine(1, 0, <<"c">>), [kind |-> "nocolon"],
        [kind |-> "badstaff"], [kind |-> "blank"],
        HeaderLine(2), StaffLine(1, 0, <<"d">>)>>,
      <<HeaderLine(1), StaffLine(1, 0, <<"c">>), [kind |-> "comment"],
        StaffLine(2, 0, <<"g">>)>> }

InputTexts ==
    { TextBlock(1, l1) \o TextBlock(2, l2) : l1 \in Measure1Lines, l2 \in Measure2Lines }
        \cup MalformedTexts

\* The payloads of an array-form import.  Row(n, parts) starts at measure n.
Row(n, parts) == [has_start |-> TRUE, measure_start |-> n, parts |-> parts]
RowNoStart(parts) == [has_start |-> FALSE, measure_start |-> NoMeasure, parts |-> parts]
RowBadStart(parts) == [has_start |-> TRUE, measure_start |-> BadStart, parts |-> parts]
Rows(rows) == [kind |-> "list", rows |-> rows]

JsonPayloads ==
    { [kind |-> "malformed"],
      [kind |-> "value"],
      Rows(<<>>),
      Rows(<< RowNoStart(<< <<<<"1">>, <<"c">>>> >>) >>),
      Rows(<< Row(1, << <<<<"1">>, <<"c", " ", "d", "-", "e">>>> >>) >>),
      Rows(<< Row(1, << <<<<"S", "1">>, <<"c", "-">>>>, <<<<"X">>, <<"q">>>> >>),
              Row(2, << <<<<"S", "1">>, <<"d">>>> >>) >>),
      Rows(<< Row(2, << <<<<"1">>, <<"f">>>> >>),
              Row(1, << <<<<"1">>, <<"c", "-", "d", "-", "e">>>> >>) >>),
      Rows(<< Row(1, << <<<<"2">>, <<"c", " ", "_", " ", "d">>>> >>) >>),
      Rows(<< Row(1, << <<<<"1">>, <<"c">>>> >>),
              RowBadStart(<< <<<<"1">>, <<"d">>>> >>) >>),
      Rows(<< Row(1, << <<<<"1">>, <<"c", " ", "d">>>>, <<<<"2">>, <<"g">>>> >>) >>),
      Rows(<< Row(1, << <<<<"2">>, <<"g">>>>, <<<<"S", "1">>, <<"c", " ", "d">>>> >>) >>) }

\* The payloads an import with a split list is run on: both staffs have a line
SplitPayloads == { p \in JsonPayloads : p.kind = "list" /\ Len(p.rows) = 1
                                        /\ Len(p.rows[1].parts) = 2 }

\* The split lists of an array-form import
SplitLists == { <<>>, <<1>>, <<2>>, <<1, 2>> }

\* What an array-form import was given
JsonInput(payload, split) == << [payload |-> payload, split |-> split] >>

---------------------------------------------------------------------------
(* The codec as a state machine: a document is loaded, then one of the     *)
(* operations runs on it.                                                  *)

InitCodec ==
    /\ NoSplitState
    /\ score \in CodecScores
    /\ orig = score
    /\ txt = <<>>
    /\ by_measure = EmptyDict
    /\ phase = "loaded"
    /\ NoUtilState

\* export_file: the text is produced; the document gets its missing rests.
\* by_measure holds by_measure_staff, the token table the text is written from.
Export ==
    /\ phase = "loaded"
    /\ txt' = export_mscx_to_txt(score)
    /\ by_measure' = ExportStaffs(add_rests_to_empty_measures(score), EmptyDict)
    /\ score' = add_rests_to_empty_measures(score)
    /\ phase' = "exported"
    /\ UNCHANGED orig
    /\ UNCHANGED splitVars
    /\ UNCHANGED utilVars

\* import_file on the exported text and an unmodified copy of the document
ImportExported ==
    /\ phase = "exported"
    /\ score' = import_txt_into_mscx(orig, [kind |-> "txt", txt |-> txt])
    /\ by_measure' = BlocksToDict(parse_txt(txt), EmptyDict)
    /\ phase' = "roundtrip"
    /\ UNCHANGED <<orig, txt>>
    /\ UNCHANGED splitVars
    /\ UNCHANGED utilVars

\* import_file on a text written elsewhere
ImportTxt ==
    /\ phase = "loaded"
    /\ \E t \in InputTexts :
        /\ txt' = t
        /\ score' = import_txt_into_mscx(score, [kind |-> "txt", txt |-> t])
        /\ by_measure' = BlocksToDict(parse_txt(t), EmptyDict)
    /\ phase' = "imported"
    /\ UNCHANGED orig
    /\ UNCHANGED splitVars
    /\ UNCHANGED utilVars

\* import_file on an array-form file, with or without a split list; txt
\* keeps what the import was given
ImportJson ==
    /\ phase = "loaded"
    /\ \E payload \in JsonPayloads, split \in SplitLists :
        /\ split = <<>> \/ payload \in SplitPayloads
        /\ \E r \in {import_json_txt_into_mscx(score, payload, split)} :
            /\ score' = r[2]
            /\ by_measure' = r[3]
            /\ phase' = IF r[1] = "applied" THEN "json_applied"
                        ELSE IF r[1] = "nothing" THEN "json_nothing"
                        ELSE "json_raised"
        /\ txt' = JsonInput(payload, split)
    /\ UNCHANGED orig
    /\ UNCHANGED splitVars
    /\ UNCHANGED utilVars

NextCodec == Export \/ ImportExported \/ ImportTxt \/ ImportJson

SpecCodec == InitCodec /\ [][NextCodec]_vars

---------------------------------------------------------------------------
(* Properties of the codec.                                                *)

\* The positions <<staff, measure, voice, element>> of the Chords of a document
ChordsOf(sc) ==
    { pos \in UNION { UNION { UNION { { <<s, m, v, e>> :
                e \in 1..Len(sc[s].measures[m].voices[v]) } :
              v \in 1..Len(sc[s].measures[m].voices) } :
            m \in 1..Len(sc[s].measures) } :
          s \in 1..Len(sc) } :
        sc[pos[1]].measures[pos[2]].voices[pos[3]][pos[4]].tag = "Chord" }

At(sc, pos) == sc[pos[1]].measures[pos[2]].voices[pos[3]][pos[4]]

\* The verse-1 lyrics of a chord as <<role, text>> pairs
Verse1(chord) ==
    LET v1 == SelectSeq(chord.lyrics, LAMBDA l : Strip(l.no) = <<>>)
    IN  [i \in 1..Len(v1) |-> <<v1[i].syllabic, Strip(v1[i].text)>>]

\* The chord carries a Slur or Tie spanner with a prev marker
HasPrev(chord) == \E i \in 1..Len(chord.spanners) : chord.spanners[i].mark = "prev"

Imported == phase \in {"imported", "roundtrip", "json_applied"}

\* The roles of the verse-1 lyrics of voice 0 of a staff, in document order
VoiceRoles(staff) ==
    Flatten([m \in 1..Len(staff.measures) |->
        IF staff.measures[m].voices = <<>> THEN <<>>
        ELSE LET withLyric == SelectSeq(staff.measures[m].voices[1],
                                  LAMBDA el : el.tag = "Chord" /\ Verse1(el) # <<>>)
             IN  [i \in 1..Len(withLyric) |-> Verse1(withLyric[i])[1][1]]])

\* The roles spell whole words: single, or begin, middle ..., end
RECURSIVE WordsOk(_, _)
WordsOk(roles, open) ==
    IF roles = <<>> THEN ~open
    ELSE CASE Head(roles) = "single" -> ~open /\ WordsOk(Tail(roles), FALSE)
           [] Head(roles) = "begin" -> ~open /\ WordsOk(Tail(roles), TRUE)
           [] Head(roles) = "middle" -> open /\ WordsOk(Tail(roles), TRUE)
           [] Head(roles) = "end" -> open /\ WordsOk(Tail(roles), FALSE)
           [] OTHER -> FALSE

\* Element e of the voice lies under a slur or tie that an earlier chord of
\* the voice starts and no chord up to e ends
UnderSpanner(voice, e) ==
    \E f \in 1..(e - 1) : \E i \in 1..Len(voice[f].spanners) :
        /\ voice[f].spanners[i].mark = "next"
        /\ \A g \in (f + 1)..e : \A j \in 1..Len(voice[g].spanners) :
              ~(voice[g].spanners[j].mark = "prev"
                /\ voice[g].spanners[j].type = voice[f].spanners[i].type)

\* A document as a notation program writes it: the syllables of voice 0 spell
\* whole words, every chord that has lyrics has one of verse 1, and no chord
\* under a slur or tie carries a syllable
WellFormedLyrics(sc) ==
    /\ \A s \in 1..Len(sc) : WordsOk(VoiceRoles(sc[s]), FALSE)
    /\ \A pos \in ChordsOf(sc) :
          /\ At(sc, pos).lyrics # <<>> => Verse1(At(sc, pos)) # <<>>
          /\ UnderSpanner(sc[pos[1]].measures[pos[2]].voices[pos[3]], pos[4])
                => At(sc, pos).lyrics = <<>>

\* C1: exporting a document and importing the text into an unmodified copy
\* leaves the verse-1 text and role of every chord of voice 0 that is not a
\* slur/tie continuation as they were, and a chord without a lyric without one.
\* The claim is for any score; it is stated here for the scores whose lyrics
\* are well formed, so that a violation is one on a document that is in use.
C1_RoundTrip ==
    (phase = "roundtrip" /\ WellFormedLyrics(orig)) =>
        \A pos \in ChordsOf(orig) :
            (pos[3] = 1 /\ ~is_continuation_no_lyric(At(orig, pos)))
                => Verse1(At(score, pos)) = Verse1(At(orig, pos))

\* A three-syllable word that crosses the bar line after its first syllable
\* has been exported and imported, and its middle syllable came back as "end".
C1_RoleLost ==
    /\ phase = "roundtrip"
    /\ Len(orig[1].measures[1].voices[1]) = 1
    /\ Verse1(orig[1].measures[1].voices[1][1]) = << <<"begin", <<"a">>>> >>
    /\ Verse1(orig[1].measures[2].voices[1][1]) = << <<"middle", <<"a">>>> >>
    /\ Verse1(orig[1].measures[2].voices[1][2]) = << <<"end", <<"a">>>> >>
    /\ \A e \in 1..2 : orig[1].measures[2].voices[1][e].spanners = <<>>
    /\ Verse1(score[1].measures[2].voices[1][1]) = << <<"end", <<"a">>>> >>

\* The token the export format gives a chord: its verse-1 text, with a hyphen
\* when the role is begin or middle, or the underscore when it has no verse-1 lyric
FormatToken(chord) ==
    LET v1 == Verse1(chord)
    IN  IF v1 = <<>> THEN UNDERSCORE
        ELSE v1[1][2] \o (IF v1[1][1] \in {"begin", "middle"} THEN HYPHEN ELSE <<>>)

FormatTokens(voice) ==
    LET eligible == SelectSeq(voice, LAMBDA el : el.tag = "Chord" /\ ~HasPrev(el))
    IN  [i \in 1..Len(eligible) |-> FormatToken(eligible[i])]

\* C7: for every staff and measure the export holds one token for each chord of
\* voice 0 without a prev marker, in order: the verse-1 text (hyphenated for
\* begin and middle) or the underscore; no other verse's text; and the line of
\* the staff carries the number of tokens in brackets.
C7_ExportFormat ==
    phase = "exported" =>
        \A s \in 1..Len(score) : \A m \in 1..Len(score[s].measures) :
            LET tokens == FormatTokens(score[s].measures[m].voices[1])
            IN  /\ by_measure[m][score[s].id] = tokens
                /\ \E i \in 1..Len(txt) :
                      /\ txt[i].kind = "staff"
                      /\ txt[i].staff = score[s].id
                      /\ txt[i].count = Len(tokens)
                      /\ \E h \in 1..(i - 1) :
                            /\ txt[h] = HeaderLine(m)
                            /\ \A j \in (h + 1)..(i - 1) : txt[j].kind = "staff"

\* C8: after an import no chord that carries a Slur or Tie spanner with a prev
\* marker has a verse-1 lyric, in any staff, measure and voice.
C8_ContinuationsCleared ==
    Imported =>
        \A pos \in ChordsOf(score) :
            HasPrev(At(score, pos)) => Verse1(At(score, pos)) = <<>>

\* Some lyric of a verse other than verse 1 is left in the document
Verse2Left(sc) ==
    \E pos \in ChordsOf(sc) :
        \E i \in 1..Len(At(sc, pos).lyrics) : Strip(At(sc, pos).lyrics[i].no) # <<>>

FirstRole(token, prev_hyphen) ==
    IF prev_hyphen THEN "end"
    ELSE IF \E i \in 1..Len(token) : token[i] = "-" THEN "begin"
    ELSE "single"

\* The token stream of the staff for the measure before m ended in a hyphen
PrevHyphen(bm, m, sid) ==
    /\ (m - 1) \in DOMAIN bm
    /\ sid \in DOMAIN bm[m - 1]
    /\ bm[m - 1][sid] # <<>>
    /\ Last(bm[m - 1][sid]) # UNDERSCORE
    /\ EndsWith(Last(bm[m - 1][sid]), "-")

\* The first chord of a voice that is not a slur/tie continuation (0: none)
FirstEligible(voice) ==
    LET cs == {e \in 1..Len(voice) :
                  voice[e].tag = "Chord" /\ ~is_continuation_no_lyric(voice[e])}
    IN  IF cs = {} THEN 0 ELSE CHOOSE e \in cs : \A f \in cs : e <= f

\* C10: for every staff and every measure N of the imported table whose first
\* token is a word (syllables joined by hyphens, with or without a trailing
\* hyphen), the first eligible chord of measure N carries that word's first
\* syllable with role "end" when the staff's tokens for measure N-1 ended in a
\* hyphen, whatever the word looks like, and otherwise with role "single", or
\* "begin" when the word is hyphenated.
C10_CrossMeasure ==
    Imported =>
        \A s \in 1..Len(score) : \A m \in 1..Len(score[s].measures) :
            LET sid == score[s].id
                voice == score[s].measures[m].voices[1]
                e == FirstEligible(voice)
            IN  (/\ m \in DOMAIN by_measure
                 /\ sid \in DOMAIN by_measure[m]
                 /\ by_measure[m][sid] # <<>>
                 /\ by_measure[m][sid][1] # UNDERSCORE
                 /\ e # 0)
                => /\ Len(Verse1(voice[e])) = 1
                   /\ Verse1(voice[e])[1][1] =
                        FirstRole(by_measure[m][sid][1], PrevHyphen(by_measure, m, sid))

\* Measure 1 of staff 1 ended in a hyphen and the first token of measure 2 is
\* a plain word, which the import has placed with role "end".
C10_Witness ==
    /\ phase = "imported"
    /\ 2 \in DOMAIN by_measure /\ 1 \in DOMAIN by_measure[2]
    /\ by_measure[2][1][1] = <<"d">>
    /\ PrevHyphen(by_measure, 2, 1)
    /\ FirstEligible(score[1].measures[2].voices[1]) # 0
    /\ Verse1(score[1].measures[2].voices[1][FirstEligible(score[1].measures[2].voices[1])])
          = << <<"end", <<"d">>>> >>

\* The table names measure m (1-based) of the staff with id sid
Named(bm, m, sid) == m \in DOMAIN bm /\ sid \in DOMAIN bm[m]

\* C11: after an import, in the text or the array form, whose data does not
\* name a (staff, measure) pair, every chord of that pair that is not a slur
\* or tie continuation is still a chord at its place and has the verse-1
\* lyrics (roles and texts) it had before; this holds in every voice.
C11_PartialImport ==
    phase \in {"imported", "json_applied"} =>
        \A pos \in ChordsOf(orig) :
            (/\ ~Named(by_measure, pos[2], orig[pos[1]].id)
             /\ ~is_continuation_no_lyric(At(orig, pos)))
                => /\ pos \in ChordsOf(score)
                   /\ Verse1(At(score, pos)) = Verse1(At(orig, pos))

\* A text naming measure 2 of staff 1 only has been imported: measure 2 got
\* new verse-1 lyrics while a chord of measure 1 kept the one it had.
C11_Witness ==
    /\ phase = "imported"
    /\ Named(by_measure, 2, 1)
    /\ ~Named(by_measure, 1, 1)
    /\ \E pos \in ChordsOf(orig) :
            /\ pos[1] = 1 /\ pos[2] = 1
            /\ ~is_continuation_no_lyric(At(orig, pos))
            /\ Verse1(At(orig, pos)) # <<>>
            /\ Verse1(At(score, pos)) = Verse1(At(orig, pos))
    /\ \E pos \in ChordsOf(orig) :
            /\ pos[1] = 1 /\ pos[2] = 2
            /\ Verse1(At(score, pos)) # Verse1(At(orig, pos))

\* What the array-form import of this state was given
GivenRows == txt[1].payload.rows
GivenLines == SelectSeq(txt[1].payload.rows, LAMBDA r : r.has_start)
GivenSplit == txt[1].split

\* The lyric-eligible chord slots of measure m of staff sid, and the measure
\* after the staff's last one, in the document the import is run on
Slots(sid, m) ==
    DictGet(DictGet(get_chord_counts_per_measure(add_rests_to_empty_measures(orig)),
                    sid, EmptyDict), m, 0)

PastLastMeasure(sid, m_start) ==
    IF DOMAIN DictGet(get_chord_counts_per_measure(add_rests_to_empty_measures(orig)),
                      sid, EmptyDict) = {}
    THEN m_start + 1
    ELSE SetMax(DOMAIN DictGet(get_chord_counts_per_measure(
                                  add_rests_to_empty_measures(orig)), sid, EmptyDict)) + 1

RECURSIVE SlotsBetween(_, _, _)
SlotsBetween(sid, a, b) ==
    IF a >= b THEN 0 ELSE Slots(sid, a) + SlotsBetween(sid, a + 1, b)

\* Row i of the payload as a line: where the next line starts, whether the
\* line before it ends with a hyphen, and its expanded syllables for a part
NextStart(rows, i, sid) ==
    IF \E j \in 1..Len(rows) : rows[j].measure_start > rows[i].measure_start
    THEN rows[CHOOSE j \in 1..Len(rows) :
                /\ rows[j].measure_start > rows[i].measure_start
                /\ \A k \in 1..Len(rows) :
                      rows[k].measure_start > rows[i].measure_start
                          => rows[j].measure_start <= rows[k].measure_start].measure_start
    ELSE PastLastMeasure(sid, rows[i].measure_start)

AfterHyphen(rows, i, key) ==
    \E j \in 1..Len(rows) :
        /\ rows[j].measure_start < rows[i].measure_start
        /\ \A k \in 1..Len(rows) :
              rows[k].measure_start < rows[i].measure_start
                  => rows[k].measure_start <= rows[j].measure_start
        /\ last_token_ends_with_hyphen(tokenize_line(Strip(RowText(rows[j], key))))

LineSyllables(rows, i, key) ==
    tokens_to_syllables(tokenize_line(Strip(RowText(rows[i], key))),
                        AfterHyphen(rows, i, key))

\* The syllables of the line that belong to measure m: those after the ones
\* the measures before m have slots for, as many as m has slots
ChunkOf(syllables, sid, m_start, m) ==
    SubSeq(syllables,
           Min2(Len(syllables), SlotsBetween(sid, m_start, m)) + 1,
           Min2(Len(syllables), SlotsBetween(sid, m_start, m + 1)))

\* C12: after an array-form import without a split list, for every part key
\* naming a staff and every measure m: the table names (m, staff) exactly
\* when m lies from some line's measure_start up to the next line's
\* measure_start (or the staff's last measure) and the line still has
\* syllables left after filling the slots of the measures before m; the
\* tokens of m are then the next syllables of that line, in order, at most
\* as many as m has slots.
C12_Distribution ==
    (phase = "json_applied" /\ GivenSplit = <<>>) =>
        \A p \in 1..Len(GivenRows[1].parts), m \in 1..(Len(orig[1].measures) + 1) :
            PartStaff(GivenRows[1].parts[p][1])[1] =>
                \E r \in { <<GivenLines, GivenRows[1].parts[p][1],
                              PartStaff(GivenRows[1].parts[p][1])[2]>> } :
                    LET owners == { i \in 1..Len(r[1]) :
                            /\ r[1][i].measure_start <= m
                            /\ m < NextStart(r[1], i, r[3])
                            /\ ChunkOf(LineSyllables(r[1], i, r[2]), r[3],
                                       r[1][i].measure_start, m) # <<>> }
                    IN  /\ Named(by_measure, m, r[3]) <=> owners # {}
                        /\ \A i \in owners :
                              by_measure[m][r[3]] = syllables_to_tokens(
                                  ChunkOf(LineSyllables(r[1], i, r[2]), r[3],
                                          r[1][i].measure_start, m))

\* A single line of three syllables starting at measure 1 was distributed:
\* measure 1 has fewer slots than the line has syllables and got its share,
\* measure 2 got syllables that follow.
C12_Witness ==
    /\ phase = "json_applied" /\ GivenSplit = <<>>
    /\ Len(GivenRows) = 1
    /\ Len(LineSyllables(GivenLines, 1, <<"1">>)) = 3
    /\ Slots(1, 1) \in 1..2
    /\ Named(by_measure, 1, 1) /\ Named(by_measure, 2, 1)

\* The table of the given payload before the split list is applied
UnsplitTable == json_table(orig, parse_json_txt(txt[1].payload)[2])

\* The input parts of measure m whose tokens the split list sends to staff id
WrittenTo(m, id) ==
    { sid \in DOMAIN UnsplitTable[m] :
        \E k \in 1..Len(output_ids(sid, GivenSplit)) :
            output_ids(sid, GivenSplit)[k] = id }

\* C13: after an array-form import with split list L, in every measure of
\* the table the tokens of an input part L[i] (i counted from 0) are found
\* unchanged under the staff ids L[i]+i and L[i]+i+1, the tokens of a part
\* that is not in L are found unchanged under its own id, and every staff
\* id of the measure got the tokens of exactly one input part.
C13_SplitTable ==
    (phase = "json_applied" /\ GivenSplit # <<>>) =>
        \A m \in DOMAIN UnsplitTable :
            /\ m \in DOMAIN by_measure
            /\ \A sid \in DOMAIN UnsplitTable[m] :
                  IF \E i \in 1..Len(GivenSplit) : GivenSplit[i] = sid
                  THEN \A i \in 1..Len(GivenSplit) :
                          GivenSplit[i] = sid =>
                            /\ Named(by_measure, m, sid + i - 1)
                            /\ Named(by_measure, m, sid + i)
                            /\ by_measure[m][sid + i - 1] = UnsplitTable[m][sid]
                            /\ by_measure[m][sid + i] = UnsplitTable[m][sid]
                  ELSE /\ Named(by_measure, m, sid)
                       /\ by_measure[m][sid] = UnsplitTable[m][sid]
            /\ \A id \in DOMAIN by_measure[m] : Cardinality(WrittenTo(m, id)) = 1

\* Split list [1] was given with lines for the parts 1 and 2 in one measure:
\* two input parts were sent to staff id 2.
C13_Collision ==
    /\ phase = "json_applied"
    /\ GivenSplit = <<1>>
    /\ \E m \in DOMAIN UnsplitTable : Cardinality(WrittenTo(m, 2)) = 2

\* The measure of the last header before line i of the text (NoMeasure: none)
HeaderBefore(text, i) ==
    IF \E h \in 1..(i - 1) : text[h].kind = "header"
    THEN text[CHOOSE h \in 1..(i - 1) :
                /\ text[h].kind = "header"
                /\ \A k \in (h + 1)..(i - 1) : text[k].kind # "header"].measure
    ELSE NoMeasure

\* Line i is a staff line under a measure header, and no later line of the
\* text is for the same measure and staff
ToApply(text, i) ==
    /\ text[i].kind = "staff"
    /\ HeaderBefore(text, i) # NoMeasure
    /\ \A j \in (i + 1)..Len(text) :
          ~(/\ text[j].kind = "staff"
            /\ text[j].staff = text[i].staff
            /\ HeaderBefore(text, j) = HeaderBefore(text, i))

\* C14: no import raises (no array-form import ends in an exception), and
\* after a text import every staff line of the format that stands under a
\* measure header is in the table that was applied, whatever malformed
\* lines the text has besides.
C14_NoEscape ==
    /\ phase # "json_raised"
    /\ phase = "imported" =>
          \A i \in 1..Len(txt) :
              ToApply(txt, i) =>
                  /\ Named(by_measure, HeaderBefore(txt, i), txt[i].staff)
                  /\ by_measure[HeaderBefore(txt, i)][txt[i].staff]
                        = tokenize_line(txt[i].rest)

\* An array-form import raised.
C14_Raised == phase = "json_raised"

\* A text import dropped a staff line of the format: the text has a # line
\* that is no measure header.
C14_LineLost ==
    /\ phase = "imported"
    /\ \E i \in 1..Len(txt) :
          ToApply(txt, i) /\ ~Named(by_measure, HeaderBefore(txt, i), txt[i].staff)

\* A text import skipped what is not of the format and applied the rest.
C14_Skipped ==
    /\ phase = "imported"
    /\ \E i \in 1..Len(txt) : txt[i].kind \in {"nocolon", "badstaff"}
    /\ \A i \in 1..Len(txt) :
          ToApply(txt, i) =>
              /\ Named(by_measure, HeaderBefore(txt, i), txt[i].staff)
              /\ by_measure[HeaderBefore(txt, i)][txt[i].staff] = tokenize_line(txt[i].rest)
    /\ Named(by_measure, 1, 1) /\ Named(by_measure, 2, 1)

---------------------------------------------------------------------------
(* Corrupted-measure repair (scripts/clean_score/src/corrupted_measures.py) *)
(*                                                                         *)
(* A repair document is a sequence of staffs [id, measures]; a measure is  *)
(* [len, voices] with len the characters of the len attribute (<<>>: no    *)
(* attribute); an element of a voice is [tag, durationType, dots] for a    *)
(* Chord or Rest, [tag, sigN, sigD] for a TimeSig and [tag, fractions] for *)
(* a location.                                                             *)

RESOLUTION == 128

\* duration_map.get(name.lower(), 0)
duration_map(name) ==
    CASE name = "whole" -> RESOLUTION
      [] name = "half" -> RESOLUTION \div 2
      [] name = "quarter" -> RESOLUTION \div 4
      [] name = "eighth" -> RESOLUTION \div 8
      [] name = "16th" -> RESOLUTION \div 16
      [] name = "32nd" -> RESOLUTION \div 32
      [] name = "64th" -> RESOLUTION \div 64
      [] name = "128th" -> RESOLUTION \div 128
      [] OTHER -> 0

\* int(x / y) for y > 0: the quotient rounded towards zero
TruncDiv(x, y) == IF x >= 0 THEN x \div y ELSE -((-x) \div y)

\* resolve_duration on a fraction <<numerator, denominator>>
resolve_fraction(fraction) == TruncDiv(RESOLUTION * fraction[1], fraction[2])

\* resolve_duration on a duration type and a number of dots
resolve_duration(name, dots) ==
    LET ret == duration_map(name)
    IN  CASE dots = 1 -> ret + ret \div 2
          [] dots = 2 -> ret + (ret \div 2) + (ret \div 4)
          [] dots = 3 -> ret + (ret \div 2) + (ret \div 4) + (ret \div 8)
          [] OTHER -> ret

\* The ticks the scan of a voice advances by on an element
ElementTicks(el) ==
    CASE el.tag \in {"Chord", "Rest"} -> resolve_duration(el.durationType, el.dots)
      [] el.tag = "location" -> resolve_fraction(el.fractions)
      [] OTHER -> 0

\* get_rest_length
get_rest_length(rest, tick_diff) == resolve_duration(rest.durationType, rest.dots) - tick_diff

\* BASE_NOTE_VALUES as int(value * RESOLUTION), each row with 0 to 3 dots
BASE_NOTE_VALUES ==
    << <<"whole", <<128, 192, 224, 240>> >>,
       <<"half", <<64, 96, 112, 120>> >>,
       <<"quarter", <<32, 48, 56, 60>> >>,
       <<"eighth", <<16, 24, 28, 30>> >>,
       <<"16th", <<8, 12, 14, 15>> >>,
       <<"32nd", <<4, 6, 7, 7>> >>,
       <<"64th", <<2, 3, 3, 3>> >> >>

\* shorten_rest_to: <<"remove">>, <<"set", rest'>> or <<"keep">> when no note
\* value has that many ticks
shorten_rest_to(rest, new_duration_in_ticks) ==
    IF new_duration_in_ticks = 0 THEN <<"remove">>
    ELSE LET hits == {ij \in (1..7) \X (1..4) :
                         BASE_NOTE_VALUES[ij[1]][2][ij[2]] = new_duration_in_ticks}
         IN  IF hits = {} THEN <<"keep">>
             ELSE LET first == CHOOSE ij \in hits : \A kl \in hits :
                                  ij[1] < kl[1] \/ (ij[1] = kl[1] /\ ij[2] <= kl[2])
                  IN  <<"set", [rest EXCEPT !.durationType = BASE_NOTE_VALUES[first[1]][1],
                                            !.dots = first[2] - 1]>>

\* A Python dict as the sequence of its <<key, value>> pairs in insertion
\* order: d[k] = v replaces in place or appends
OrderedPut(d, k, v) ==
    IF \E i \in 1..Len(d) : d[i][1] = k
    THEN [i \in 1..Len(d) |-> IF d[i][1] = k THEN <<k, v>> ELSE d[i]]
    ELSE Append(d, <<k, v>>)

\* An element is referred to by <<voice, index>>; None is NoneRef
NoneRef == <<0, 0>>

\* Lines 72-106: the elements of one voice go into the table under their
\* start positions, then None under the end position
RECURSIVE ScanVoice(_, _, _, _, _)
ScanVoice(voice, v, e, time_pos, entry) ==
    IF e > Len(voice)
    THEN [entry EXCEPT !.elements = OrderedPut(entry.elements, time_pos, NoneRef)]
    ELSE LET next_pos == time_pos + ElementTicks(voice[e])
         IN  ScanVoice(voice, v, e + 1, next_pos,
                       [elements |-> OrderedPut(entry.elements, time_pos, <<v, e>>),
                        max_time_pos |-> Max2(entry.max_time_pos, next_pos)])

\* Lines 59-71: voice_index is set to -1 and then to 0 for every voice, so
\* all voices of the measure are scanned into the one table "elements"[0]
RECURSIVE ScanVoices(_, _, _)
ScanVoices(voices, v, entry) ==
    IF v > Len(voices) THEN entry
    ELSE ScanVoices(voices, v + 1, ScanVoice(voices[v], v, 1, 0, entry))

ScanMeasure(measure) ==
    ScanVoices(measure.voices, 1, [elements |-> <<>>, max_time_pos |-> 0])

\* problem_measure_flag
problem_measure_flag(measure) == \E i \in 1..Len(measure.len) : measure.len[i] = "/"

\* measure.find(".//TimeSig"): the first TimeSig of the measure, <<0, 0>> if none
NoTimeSig == <<0, 0>>

MeasureTimeSig(measure) ==
    LET all == Flatten(measure.voices)
        sigs == SelectSeq(all, LAMBDA el : el.tag = "TimeSig")
    IN  IF sigs = <<>> THEN NoTimeSig ELSE <<sigs[1].sigN, sigs[1].sigD>>

\* time_sig as the walk over the measures of a staff reaches measure m
RECURSIVE TimeSigAt(_, _)
TimeSigAt(staff, m) ==
    IF m = 0 THEN NoTimeSig
    ELSE IF MeasureTimeSig(staff.measures[m]) # NoTimeSig
         THEN MeasureTimeSig(staff.measures[m])
         ELSE TimeSigAt(staff, m - 1)

\* problem_measures[m]: one record for each staff whose measure m is flagged
problem_measures(doc, m) ==
    LET flagged == SelectSeq([s \in 1..Len(doc) |-> s],
                       LAMBDA s : m <= Len(doc[s].measures)
                                  /\ problem_measure_flag(doc[s].measures[m]))
    IN  [i \in 1..Len(flagged) |->
            [staff |-> flagged[i],
             has_voice |-> doc[flagged[i]].measures[m].voices # <<>>,
             entry |-> ScanMeasure(doc[flagged[i]].measures[m]),
             time_sig |-> TimeSigAt(doc[flagged[i]], m)]]

\* Lines 111-131: every table that reaches the longest end position of the
\* measure must hold a Rest as its last element before the closing None
possible_to_fix(doc, m, staff_list) ==
    LET entries == SelectSeq(staff_list, LAMBDA sv : sv.has_voice)
        max_time_pos_in_measure ==
            SeqMax([i \in 1..Len(entries) |-> entries[i].entry.max_time_pos])
        ok(sv) ==
            LET els == sv.entry.elements
                ref == els[Len(els) - 1][2]
            IN  \/ sv.entry.max_time_pos < max_time_pos_in_measure
                \/ /\ Len(els) >= 2
                   /\ ref # NoneRef
                   /\ doc[sv.staff].measures[m].voices[ref[1]][ref[2]].tag = "Rest"
    IN  \A i \in 1..Len(entries) : ok(entries[i])

\* Lines 137-145
correct_measure_len(time_sig) ==
    IF time_sig = NoTimeSig THEN 0 ELSE (RESOLUTION * time_sig[1]) \div time_sig[2]

\* Lines 161-252: one step of the loop over the table of one staff.  st is
\* [prev_el, prev_prev_el, remove_rest_of_elements, cant_fix, to_remove,
\* to_shorten]; to_remove holds <<staff, voice, index>>, to_shorten holds
\* <<<<staff, voice, index>>, ticks>>.
FixStep(voices, s, correct_len, st, time_pos, ref) ==
    LET tag == IF ref = NoneRef THEN "None" ELSE voices[ref[1]][ref[2]].tag
        TagOf(r) == voices[r[1]][r[2]].tag
        cant == [st EXCEPT !.cant_fix = TRUE]
        at(r) == <<s, r[1], r[2]>>
    IN  IF st.cant_fix THEN st
        ELSE IF st.remove_rest_of_elements
        THEN IF tag = "Chord" THEN cant
             ELSE IF ref # NoneRef
             THEN [st EXCEPT !.to_remove = Append(st.to_remove, at(ref))]
             ELSE st
        ELSE IF ref # NoneRef /\ time_pos = correct_len
        THEN IF tag = "Chord" THEN cant
             ELSE [st EXCEPT !.to_remove = Append(st.to_remove, at(ref)),
                             !.remove_rest_of_elements = TRUE]
        ELSE IF time_pos > correct_len
        THEN IF st.prev_el = NoneRef THEN cant
             ELSE IF TagOf(st.prev_el) = "Chord" THEN cant
             ELSE LET trimmed ==
                          IF correct_len - time_pos <= 0
                          THEN IF st.prev_prev_el # NoneRef
                               THEN IF TagOf(st.prev_prev_el) # "Rest" THEN cant
                                    ELSE [st EXCEPT
                                            !.to_remove = Append(st.to_remove, at(st.prev_el)),
                                            !.to_shorten = Append(st.to_shorten,
                                                <<at(st.prev_prev_el),
                                                  get_rest_length(
                                                     voices[st.prev_prev_el[1]][st.prev_prev_el[2]],
                                                     time_pos - correct_len)>>)]
                               ELSE [st EXCEPT
                                       !.to_remove = Append(st.to_remove, at(st.prev_el))]
                          ELSE [st EXCEPT !.to_shorten = Append(st.to_shorten,
                                                <<at(st.prev_el), correct_len - time_pos>>)]
                  IN  IF trimmed.cant_fix THEN trimmed
                      ELSE IF tag = "Chord" THEN cant
                      ELSE [trimmed EXCEPT
                              !.to_remove = IF ref # NoneRef
                                            THEN Append(trimmed.to_remove, at(ref))
                                            ELSE trimmed.to_remove,
                              !.remove_rest_of_elements = TRUE]
        ELSE [st EXCEPT !.prev_prev_el = st.prev_el, !.prev_el = ref]

RECURSIVE FixTable(_, _, _, _, _, _)
FixTable(voices, s, correct_len, els, i, st) ==
    IF i > Len(els) THEN st
    ELSE FixTable(voices, s, correct_len, els, i + 1,
                  FixStep(voices, s, correct_len, st, els[i][1], els[i][2]))

\* Lines 150-258: the tables of the staffs in turn
RECURSIVE FixStaffs(_, _, _, _, _, _)
FixStaffs(doc, m, correct_len, staff_list, i, st) ==
    IF i > Len(staff_list) \/ st.cant_fix THEN st
    ELSE LET sv == staff_list[i]
             fresh == [st EXCEPT !.prev_el = NoneRef, !.prev_prev_el = NoneRef,
                                 !.remove_rest_of_elements = FALSE]
         IN  FixStaffs(doc, m, correct_len, staff_list, i + 1,
                 IF sv.has_voice
                 THEN FixTable(doc[sv.staff].measures[m].voices, sv.staff, correct_len,
                               sv.entry.elements, 1, fresh)
                 ELSE st)

\* The edits of measure m: what to shorten, what to remove, whether len goes
FixPlan(doc, m) ==
    LET staff_list == problem_measures(doc, m)
        none == [cant_fix |-> TRUE, to_remove |-> <<>>, to_shorten |-> <<>>,
                 prev_el |-> NoneRef, prev_prev_el |-> NoneRef,
                 remove_rest_of_elements |-> FALSE]
    IN  IF staff_list = <<>> THEN none
        ELSE IF ~possible_to_fix(doc, m, staff_list) THEN none
        ELSE FixStaffs(doc, m, correct_measure_len(staff_list[1].time_sig), staff_list, 1,
                       [none EXCEPT !.cant_fix = FALSE])

\* Lines 260-287 on one measure of one staff
FixMeasure(doc, s, m) ==
    LET plan == FixPlan(doc, m)
        measure == doc[s].measures[m]
        Shortened(v, e) ==
            LET hits == {i \in 1..Len(plan.to_shorten) : plan.to_shorten[i][1] = <<s, v, e>>}
            IN  IF hits = {} THEN <<"keep">>
                ELSE shorten_rest_to(measure.voices[v][e],
                                     plan.to_shorten[CHOOSE i \in hits : TRUE][2])
        Removed(v, e) ==
            \/ \E i \in 1..Len(plan.to_remove) : plan.to_remove[i] = <<s, v, e>>
            \/ Shortened(v, e)[1] = "remove"
        NewVoice(v) ==
            LET idx == SelectSeq([e \in 1..Len(measure.voices[v]) |-> e],
                                 LAMBDA e : ~Removed(v, e))
            IN  [k \in 1..Len(idx) |->
                    IF Shortened(v, idx[k])[1] = "set" THEN Shortened(v, idx[k])[2]
                    ELSE measure.voices[v][idx[k]]]
    IN  IF plan.cant_fix THEN measure
        ELSE [len |-> IF plan.to_remove # <<>> /\ problem_measure_flag(measure)
                      THEN <<>> ELSE measure.len,
              voices |-> [v \in 1..Len(measure.voices) |-> NewVoice(v)]]

preprocess_corrupted_measures(doc) ==
    [s \in 1..Len(doc) |->
        [doc[s] EXCEPT !.measures =
            [m \in 1..Len(doc[s].measures) |-> FixMeasure(doc, s, m)]]]

---------------------------------------------------------------------------
(* The documents the repair is run on: every staff has a sound first       *)
(* measure carrying the 4/4 time signature and a second measure of one to  *)
(* MaxVoices voices, flagged with len="17/16" or not.                      *)

MaxRepairStaffs == 2
MaxVoices == 2

Chord(durationType, dots) == [tag |-> "Chord", durationType |-> durationType, dots |-> dots]
Rest(durationType, dots) == [tag |-> "Rest", durationType |-> durationType, dots |-> dots]
TimeSig(n, d) == [tag |-> "TimeSig", sigN |-> n, sigD |-> d]

VoiceKinds ==
    { <<Chord("whole", 0), Rest("16th", 0)>>,                    \* rest on the boundary
      <<Chord("half", 1), Rest("eighth", 1), Rest("eighth", 0)>>, \* rest across it, after a rest
      <<Chord("half", 1), Chord("eighth", 1), Rest("eighth", 0)>>, \* rest across it, after a chord
      <<Chord("whole", 0), Chord("16th", 0)>>,                   \* chord on the boundary
      <<Chord("half", 1), Chord("quarter", 1)>>,                 \* chord across it
      <<Rest("whole", 0), Rest("16th", 0)>>,                     \* rests only
      <<Chord("whole", 0)>> }                                    \* a whole measure

LenAttrs == { <<>>, <<"1", "7", "/", "1", "6">> }

SoundMeasure == [len |-> <<>>, voices |-> << <<TimeSig(4, 4), Chord("whole", 0)>> >>]

RepairMeasures ==
    { [len |-> l, voices |-> vs] :
        l \in LenAttrs, vs \in UNION { [1..n -> VoiceKinds] : n \in 1..MaxVoices } }

RepairDocs ==
    UNION { { [s \in 1..n |-> [id |-> s, measures |-> <<SoundMeasure, ms[s]>>]] :
                ms \in [1..n -> RepairMeasures] } : n \in 1..MaxRepairStaffs }

InitRepair ==
    /\ NoSplitState
    /\ score \in RepairDocs
    /\ orig = score
    /\ txt = <<>>
    /\ by_measure = EmptyDict
    /\ phase = "loaded"
    /\ NoUtilState

\* main, line 197: the repair runs once on the loaded document
Repair ==
    /\ phase = "loaded"
    /\ score' = preprocess_corrupted_measures(score)
    /\ phase' = "repaired"
    /\ UNCHANGED <<orig, txt, by_measure>>
    /\ UNCHANGED splitVars
    /\ UNCHANGED utilVars

NextRepair == Repair

SpecRepair == InitRepair /\ [][NextRepair]_vars

---------------------------------------------------------------------------
(* Properties of the repair.                                               *)

RECURSIVE VoiceTicks(_)
VoiceTicks(voice) ==
    IF voice = <<>> THEN 0 ELSE ElementTicks(Head(voice)) + VoiceTicks(Tail(voice))

\* The ticks of a 4/4 measure
FourFour == (RESOLUTION * 4) \div 4

\* The voice ends in a Rest that starts on or before the boundary and ends
\* after it
EndsInCoveringRest(voice) ==
    /\ voice # <<>>
    /\ Last(voice).tag = "Rest"
    /\ VoiceTicks(voice) > FourFour
    /\ VoiceTicks(voice) - ElementTicks(Last(voice)) <= FourFour

Flagged(doc, m) == {s \in 1..Len(doc) : problem_measure_flag(doc[s].measures[m])}

\* C5: when measure m is flagged under 4/4 and every voice of the flagged
\* staffs ends in a Rest covering the overshoot, on the boundary or across it,
\* then after the repair voice 0 of the measure lasts exactly the ticks of 4/4
\* and the measure has no len attribute.
C5_RepairResult ==
    phase = "repaired" =>
        \A m \in 1..2 :
            (/\ Flagged(orig, m) # {}
             /\ \A s \in Flagged(orig, m) :
                    \A v \in 1..Len(orig[s].measures[m].voices) :
                        EndsInCoveringRest(orig[s].measures[m].voices[v]))
            => \A s \in Flagged(orig, m) :
                    /\ VoiceTicks(score[s].measures[m].voices[1]) = FourFour
                    /\ score[s].measures[m].len = <<>>

\* Some voice of a flagged staff has a Chord that ends after the boundary: the
\* element on or past the boundary, or the one to trim, is a Chord, or the
\* overshooting voice has no trailing Rest
Unresolvable(doc, m) ==
    \E s \in Flagged(doc, m) : \E v \in 1..Len(doc[s].measures[m].voices) :
        LET voice == doc[s].measures[m].voices[v]
        IN  \E e \in 1..Len(voice) :
                /\ voice[e].tag = "Chord"
                /\ VoiceTicks(SubSeq(voice, 1, e)) > FourFour

\* C6: the repair of a measure index is all or nothing.  If some voice of
\* some staff cannot be resolved, the measure is as it was in every staff,
\* len included; and if the measure was edited in some staff, no voice of the
\* flagged staffs extends past the boundary any more.
C6_AllOrNothing ==
    phase = "repaired" =>
        \A m \in 1..2 :
            /\ Unresolvable(orig, m) =>
                  \A s \in 1..Len(orig) : score[s].measures[m] = orig[s].measures[m]
            /\ (\E s \in 1..Len(orig) : score[s].measures[m] # orig[s].measures[m]) =>
                  \A s \in Flagged(orig, m) :
                      \A v \in 1..Len(score[s].measures[m].voices) :
                          VoiceTicks(score[s].measures[m].voices[v]) <= FourFour

---------------------------------------------------------------------------
(* The split pipeline: main() of scripts/clean_score/main.py and the       *)
(* passes it calls.                                                        *)
(*                                                                         *)
(* score holds the Score/Staff elements in document order; score_parts the   *)
(* Part elements, each [staffs |-> the ids of its Staff stubs in order].   *)
(* A Chord of these documents is                                           *)
(*   [tag, durationType, dots, spanners, lyrics, notes, stem]              *)
(* where notes is the sequence of the pitches of its Note elements and     *)
(* stem the text of its StemDirection element ("" when it has none).       *)
(* TimeSig, KeySig and Clef are elements of a voice, as are the            *)
(* presentation elements Dynamic, Tempo and Harmony.  Part names and clef  *)
(* types are not part of the state, so that detect_part_types and the      *)
(* renaming of lines 332-365 leave it as it is; no fixed-lyrics file is   *)
(* present, so that load_lyrics returns False and save_lyrics only writes. *)
(*                                                                         *)
(* STAFF_MAPPING is the sequence of its <<original, duplicate>> items in   *)
(* insertion order.                                                        *)

SetMin(S) == CHOOSE x \in S : \A y \in S : x <= y

RemoveAt(s, i) == SubSeq(s, 1, i - 1) \o SubSeq(s, i + 1, Len(s))

MappingKeys(mapping) == { mapping[i][1] : i \in 1..Len(mapping) }

MappingValues(mapping) == { mapping[i][2] : i \in 1..Len(mapping) }

\* utils.get_original_staff_id: the key of the first item holding the id
get_original_staff_id(mapping, staff_id) ==
    IF \E i \in 1..Len(mapping) : mapping[i][2] = staff_id
    THEN mapping[SetMin({ i \in 1..Len(mapping) : mapping[i][2] = staff_id })][1]
    ELSE staff_id

\* The time position loop_staff gives the e-th element of a voice
RECURSIVE TimePosAt(_, _)
TimePosAt(voice, e) ==
    IF e <= 1 THEN 0 ELSE TimePosAt(voice, e - 1) + ElementTicks(voice[e - 1])

\* utils.loop_staff: the elements of a staff in document order, each with
\* its indexes, its time position and its place <<m, v, e>> in the staff
loop_staff(staff) ==
    Flatten([m \in 1..Len(staff.measures) |->
        Flatten([v \in 1..Len(staff.measures[m].voices) |->
            [e \in 1..Len(staff.measures[m].voices[v]) |->
                [staff_id |-> staff.id,
                 measure_index |-> m - 1,
                 voice_index |-> v - 1,
                 time_pos |-> TimePosAt(staff.measures[m].voices[v], e),
                 element |-> staff.measures[m].voices[v][e],
                 m |-> m, v |-> v, e |-> e]]])])

IsChordItem(it) == it.element.tag = "Chord"

\* The Chords of a staff in document order
staff_chords(staff) == SelectSeq(loop_staff(staff), IsChordItem)

SetElement(staff, m, v, e, el) ==
    [staff EXCEPT !.measures[m].voices[v][e] = el]

MapChords(staff, F(_, _, _, _)) ==
    [staff EXCEPT !.measures =
        [m \in 1..Len(staff.measures) |->
            [staff.measures[m] EXCEPT !.voices =
                [v \in 1..Len(staff.measures[m].voices) |->
                    [e \in 1..Len(staff.measures[m].voices[v]) |->
                        IF staff.measures[m].voices[v][e].tag = "Chord"
                        THEN F(staff.measures[m].voices[v][e], m, v, e)
                        ELSE staff.measures[m].voices[v][e]]]]]]

---------------------------------------------------------------------------
(* Part/Staff Splitter: main.py lines 204-300.                             *)

\* Every staff is to be split
staffs_to_split_all(doc) == { doc[s].id : s \in 1..Len(doc) }

\* Lines 204-213: the ids of the staffs holding a measure of several voices
staffs_to_split(doc) ==
    { doc[s].id : s \in { s \in 1..Len(doc) :
        \E m \in 1..Len(doc[s].measures) : Len(doc[s].measures[m].voices) > 1 } }

\* root.findall(".//Part//Staff"): the stubs of all parts in document order
PartStubs(ps) == Flatten([p \in 1..Len(ps) |-> ps[p].staffs])

\* The counter never leaves a gap after a staff that is split
next_staff_id_no_gap(new_staff_id, split) == new_staff_id + 1

\* Lines 235-240: the counter after a staff
next_staff_id(new_staff_id, split) ==
    IF split THEN new_staff_id + 2 ELSE new_staff_id + 1

\* Lines 224-240: the walk over all Staff elements.  The result is
\* <<the new ids in order, new_staffs_to_split>>.
RECURSIVE AssignIds(_, _, _, _, _)
AssignIds(ids, to_split, new_staff_id, out, new_staffs_to_split) ==
    IF ids = <<>> THEN <<out, new_staffs_to_split>>
    ELSE LET staff_id_orig == Head(ids)
             id == IF staff_id_orig = 1 THEN 1 ELSE new_staff_id
             split == staff_id_orig \in to_split
         IN  AssignIds(Tail(ids), to_split, next_staff_id(id, split),
                       Append(out, id),
                       IF split THEN new_staffs_to_split \cup {id}
                       ELSE new_staffs_to_split)

\* The stubs of the parts take the first ids of the walk
RECURSIVE RenumberParts(_, _)
RenumberParts(ps, ids) ==
    IF ps = <<>> THEN <<>>
    ELSE <<[Head(ps) EXCEPT !.staffs = SubSeq(ids, 1, Len(Head(ps).staffs))]>>
         \o RenumberParts(Tail(ps), SubSeq(ids, Len(Head(ps).staffs) + 1, Len(ids)))

\* Lines 204-245: <<parts, document, STAFF_MAPPING>> after the renumbering.
\* The items of the mapping are inserted in the iteration order of the set
\* new_staffs_to_split, which for these small integers is ascending.
reassign_ids(ps, doc) ==
    LET stubs == PartStubs(ps)
        ids == stubs \o [s \in 1..Len(doc) |-> doc[s].id]
        r == AssignIds(ids, staffs_to_split(doc), 1, <<>>, {})
        keys == SortedSeq(r[2])
    IN  << RenumberParts(ps, SubSeq(r[1], 1, Len(stubs))),
           [s \in 1..Len(doc) |-> [doc[s] EXCEPT !.id = r[1][Len(stubs) + s]]],
           [i \in 1..Len(keys) |-> <<keys[i], keys[i] + 1>>] >>

\* Lines 253-268: a part of several stubs keeps its first stub; every other
\* stub gets a part of its own, inserted right after the part
RECURSIVE ExtraParts(_, _)
ExtraParts(part, extras) ==
    IF extras = <<>> THEN <<>>
    ELSE ExtraParts(part, Tail(extras))
         \o <<[part EXCEPT !.staffs = <<Head(extras)>>]>>

one_staff_per_part(ps) ==
    Flatten([p \in 1..Len(ps) |->
        IF Len(ps[p].staffs) <= 1 THEN <<ps[p]>>
        ELSE <<[ps[p] EXCEPT !.staffs = <<ps[p].staffs[1]>>]>>
             \o ExtraParts(ps[p], Tail(ps[p].staffs))])

\* split_part: the copy of a part, its stubs renamed item by item
RECURSIVE RenameStubs(_, _)
RenameStubs(stubs, mapping) ==
    IF mapping = <<>> THEN stubs
    ELSE RenameStubs([i \in 1..Len(stubs) |->
                        IF stubs[i] = Head(mapping)[1] THEN Head(mapping)[2]
                        ELSE stubs[i]],
                     Tail(mapping))

split_part(part, mapping) ==
    [part EXCEPT !.staffs = RenameStubs(part.staffs, mapping)]

\* Lines 270-282: a part whose first stub is a key of the mapping is
\* followed by its copy
duplicate_parts(ps, mapping) ==
    Flatten([p \in 1..Len(ps) |->
        IF ps[p].staffs[1] \in MappingKeys(mapping)
        THEN <<ps[p], split_part(ps[p], mapping)>>
        ELSE <<ps[p]>>])

\* Lines 247-282
split_parts(ps, mapping) == duplicate_parts(one_staff_per_part(ps), mapping)

\* root.find(".//Score/Staff[@id=...]"): the index of the first staff holding
\* the id, 0 when there is none
FindStaff(doc, id) ==
    IF \E s \in 1..Len(doc) : doc[s].id = id
    THEN SetMin({ s \in 1..Len(doc) : doc[s].id = id })
    ELSE 0

---------------------------------------------------------------------------
(* Reversed-Voice Detector: reversed_voices.py.                            *)

\* Lines 45-46: the measure holds a Chord with a StemDirection
MeasureHasStem(measure) ==
    \E v \in 1..Len(measure.voices) : \E e \in 1..Len(measure.voices[v]) :
        /\ measure.voices[v][e].tag = "Chord"
        /\ measure.voices[v][e].stem # ""

\* Lines 56-71: the index of the highest of the chords sounding together; a
\* later chord wins only with a strictly higher first pitch
RECURSIVE HighestLoop(_, _, _)
HighestLoop(elements, i, highest) ==
    IF i > Len(elements) THEN highest
    ELSE LET el == elements[i].element
             hi == elements[highest].element
         IN  IF el.notes # <<>> /\ hi.notes # <<>> /\ el.notes[1] > hi.notes[1]
             THEN HighestLoop(elements, i + 1, i)
             ELSE HighestLoop(elements, i + 1, highest)

\* els_by_timepos[measure_index][time_pos]
ChordsAt(staff, m, t) ==
    LET Here(it) == it.m = m /\ it.time_pos = t
    IN  SelectSeq(staff_chords(staff), Here)

\* Every chord that sounds together with another one is given "down"
inferred_stem_down(staff, chord, m, v, e) ==
    IF MeasureHasStem(staff.measures[m])
          \/ Len(ChordsAt(staff, m, TimePosAt(staff.measures[m].voices[v], e))) < 2
    THEN chord
    ELSE [chord EXCEPT !.stem = "down"]

\* Lines 48-82: the stem direction a chord is given
inferred_stem(staff, chord, m, v, e) ==
    LET group == ChordsAt(staff, m, TimePosAt(staff.measures[m].voices[v], e))
        hi == HighestLoop(group, 1, 1)
    IN  IF MeasureHasStem(staff.measures[m]) \/ Len(group) < 2 THEN chord
        ELSE [chord EXCEPT !.stem =
                IF group[hi].v = v /\ group[hi].e = e THEN "up" ELSE "down"]

\* Lines 26-82
infer_stems(staff) ==
    LET Stem(chord, m, v, e) == inferred_stem(staff, chord, m, v, e)
    IN  MapChords(staff, Stem)

\* No measure is flagged
reversed_measures_none(staff) == {}

\* Lines 84-104: the indexes of the measures holding a chord whose stem
\* direction does not fit its voice
reversed_measures(staff) ==
    { m - 1 : m \in { m \in 1..Len(staff.measures) :
        \E v \in 1..Len(staff.measures[m].voices) :
            \E e \in 1..Len(staff.measures[m].voices[v]) :
                LET el == staff.measures[m].voices[v][e]
                IN  /\ el.tag = "Chord"
                    /\ el.stem # ""
                    /\ (IF el.stem = "up" THEN 0 ELSE 1) # v - 1 } }

\* find_reversed_voices_by_staff_measure: <<the staff, the table>>
find_reversed_voices_by_staff_measure(staff, reversed) ==
    LET stemmed == infer_stems(staff)
    IN  << stemmed,
           DictSet(reversed, staff.id, [i \in reversed_measures(stemmed) |-> TRUE]) >>

\* REVERSED_VOICES_BY_STAFF_MEASURE.get(staff_id, {}).get(index, False)
is_reversed(reversed, staff_id, index) ==
    DictGet(DictGet(reversed, staff_id, EmptyDict), index, FALSE)

\* main.py lines 284-300, one item of the mapping: the up staff gets its
\* stems and its flags, and its copy under the duplicate id follows it
insert_duplicate(doc, reversed, item) ==
    LET s == FindStaff(doc, item[1])
    IN  IF s = 0 THEN <<doc, reversed>>
        ELSE LET r == find_reversed_voices_by_staff_measure(doc[s], reversed)
                 up == r[1]
                 down == [up EXCEPT !.id = item[2]]
             IN  << SubSeq(doc, 1, s - 1) \o <<up, down>> \o SubSeq(doc, s + 1, Len(doc)),
                    r[2] >>

---------------------------------------------------------------------------
(* Lyric Collector: lyrics.py lines 17-140.                                *)

lyric_to_dict(lyric) == Lyr(lyric.no, lyric.syllabic, lyric.text)

\* Lines 128-140: the records one chord adds under its time position
chord_records(it, reversed) ==
    LET voice_index ==
            IF is_reversed(reversed, it.staff_id, it.measure_index)
            THEN (IF it.voice_index = 0 THEN 1 ELSE 0)
            ELSE it.voice_index
    IN  [j \in 1..Len(it.element.lyrics) |->
            [staff_id |-> it.staff_id,
             measure_index |-> it.measure_index,
             voice_index |-> voice_index,
             time_pos |-> it.time_pos,
             lyric |-> lyric_to_dict(it.element.lyrics[j])]]

RECURSIVE ReadChords(_, _, _, _)
ReadChords(chords, i, reversed, table) ==
    IF i > Len(chords) THEN table
    ELSE LET it == chords[i]
             key == <<it.measure_index, it.time_pos>>
         IN  ReadChords(chords, i + 1, reversed,
                IF it.element.lyrics = <<>> THEN table
                ELSE DictSet(table, key,
                        DictGet(table, key, <<>>) \o chord_records(it, reversed)))

\* Nothing is recorded
read_lyrics_nothing(staff, reversed, table) == table

\* read_lyrics
read_lyrics(staff, reversed, table) ==
    ReadChords(staff_chords(staff), 1, reversed, table)

\* main.py lines 303-304
RECURSIVE read_all_lyrics(_, _, _, _)
read_all_lyrics(doc, s, reversed, table) ==
    IF s > Len(doc) THEN table
    ELSE read_all_lyrics(doc, s + 1, reversed, read_lyrics(doc[s], reversed, table))

---------------------------------------------------------------------------
(* Staff Content Filter: handle_staff, main.py lines 43-148.               *)

default_timesig == TimeSig(4, 4)

default_keysig == [tag |-> "KeySig", accidental |-> 0]

\* measure.find(".//TAG"): the first such element of the measure, as a
\* sequence of length 0 or 1
FirstOfTag(measure, tag) ==
    LET all == Flatten(measure.voices)
        hits == { i \in 1..Len(all) : all[i].tag = tag }
    IN  IF hits = {} THEN <<>> ELSE <<all[SetMin(hits)]>>

WithoutTag(voice, tag) ==
    LET Other(el) == el.tag # tag
    IN  SelectSeq(voice, Other)

\* The flag of the measure is not looked at
voice_to_remove_unflagged(direction, reversed_voices) ==
    IF direction = "up" THEN 1 ELSE 0

\* Lines 62-65
voice_to_remove(direction, reversed_voices) ==
    IF reversed_voices
    THEN (IF direction = "down" THEN 1 ELSE 0)
    ELSE (IF direction = "up" THEN 1 ELSE 0)

\* Lines 87-95: the signatures found go to the start of the voice
seed_voice(voice, timesig, keysig, clef) ==
    LET a == IF timesig # <<>> THEN timesig \o WithoutTag(voice, "TimeSig") ELSE voice
        b == IF keysig # <<>> THEN keysig \o WithoutTag(a, "KeySig") ELSE a
    IN  IF clef # <<>> THEN clef \o WithoutTag(b, "Clef") ELSE b

\* Lines 103-120: of a chord of several notes the highest note goes when
\* voice 0 is to be removed, the lowest otherwise.  A Tie spanner is a child
\* of the chord's first Note (where missing_ties.py lines 132-136 put it), so
\* it goes with that note; a Slur spanner is a child of the chord and stays
prune_chord(chord, to_remove) ==
    LET notes == chord.notes
        top == CHOOSE i \in 1..Len(notes) :
                  /\ \A j \in 1..Len(notes) : notes[j] <= notes[i]
                  /\ \A j \in (i + 1)..Len(notes) : notes[j] < notes[i]
        low == CHOOSE i \in 1..Len(notes) :
                  /\ \A j \in 1..Len(notes) : notes[j] >= notes[i]
                  /\ \A j \in 1..(i - 1) : notes[j] > notes[i]
        gone == IF to_remove = 0 THEN top ELSE low
        NotTie(sp) == sp.type # "Tie"
    IN  IF Len(notes) <= 1 THEN chord
        ELSE [chord EXCEPT !.notes = RemoveAt(notes, gone),
                           !.spanners = IF gone = 1 THEN SelectSeq(@, NotTie) ELSE @]

\* Every voice stays
prune_voices_kept(voices, to_remove) == voices

\* Lines 96-120: of several voices the one to remove goes; a single voice
\* stays and loses a note of each chord
prune_voices(voices, to_remove) ==
    IF Len(voices) > 1
    THEN IF to_remove + 1 <= Len(voices) THEN RemoveAt(voices, to_remove + 1) ELSE voices
    ELSE [v \in 1..Len(voices) |->
            [e \in 1..Len(voices[v]) |->
                IF voices[v][e].tag = "Chord"
                THEN prune_chord(voices[v][e], to_remove)
                ELSE voices[v][e]]]

\* Lines 57-120, one measure
filter_measure(measure, index, direction, reversed_voices) ==
    LET found == FirstOfTag(measure, "TimeSig")
        timesig == IF found = <<>> /\ index = 0 THEN <<default_timesig>> ELSE found
        foundk == FirstOfTag(measure, "KeySig")
        keysig == IF foundk = <<>> /\ index = 0 THEN <<default_keysig>> ELSE foundk
        clef == FirstOfTag(measure, "Clef")
        seeded == [v \in 1..Len(measure.voices) |->
                     seed_voice(measure.voices[v], timesig, keysig, clef)]
    IN  [measure EXCEPT !.voices =
            prune_voices(seeded, voice_to_remove(direction, reversed_voices))]

PresentationTags == {"Dynamic", "Tempo", "Harmony"}

\* Lines 122-141: no StemDirection and no presentation element is left
strip_voice(voice) ==
    LET Kept(el) == el.tag \notin PresentationTags
        kept == SelectSeq(voice, Kept)
    IN  [e \in 1..Len(kept) |->
            IF kept[e].tag = "Chord" THEN [kept[e] EXCEPT !.stem = ""] ELSE kept[e]]

\* handle_staff looking the reversed flag up under the staff's own id
handle_staff_under_own_id(staff, direction, mapping, reversed) ==
    LET filtered ==
            [m \in 1..Len(staff.measures) |->
                IF direction = "none" THEN staff.measures[m]
                ELSE filter_measure(staff.measures[m], m - 1, direction,
                        is_reversed(reversed, staff.id, m - 1))]
    IN  [staff EXCEPT !.measures =
            [m \in 1..Len(staff.measures) |->
                [filtered[m] EXCEPT !.voices =
                    [v \in 1..Len(filtered[m].voices) |->
                        strip_voice(filtered[m].voices[v])]]]]

\* handle_staff; direction is "up", "down" or "none"
handle_staff(staff, direction, mapping, reversed) ==
    LET original_staff_id == get_original_staff_id(mapping, staff.id)
        filtered ==
            [m \in 1..Len(staff.measures) |->
                IF direction = "none" THEN staff.measures[m]
                ELSE filter_measure(staff.measures[m], m - 1, direction,
                        is_reversed(reversed, original_staff_id, m - 1))]
    IN  [staff EXCEPT !.measures =
            [m \in 1..Len(staff.measures) |->
                [filtered[m] EXCEPT !.voices =
                    [v \in 1..Len(filtered[m].voices) |->
                        strip_voice(filtered[m].voices[v])]]]]

ReplaceStaff(doc, s, staff) == [doc EXCEPT ![s] = staff]

\* main.py lines 306-316, one item of the mapping
filter_pair(doc, item, mapping, reversed) ==
    LET u == FindStaff(doc, item[1])
        a == IF u = 0 THEN doc
             ELSE ReplaceStaff(doc, u, handle_staff(doc[u], "up", mapping, reversed))
        d == FindStaff(a, item[2])
    IN  IF d = 0 THEN a
        ELSE ReplaceStaff(a, d, handle_staff(a[d], "down", mapping, reversed))

\* main.py lines 319-328: the staffs that were not split
filter_others(doc, mapping, reversed) ==
    [s \in 1..Len(doc) |->
        IF doc[s].id \in MappingKeys(mapping) \/ doc[s].id \in MappingValues(mapping)
        THEN doc[s]
        ELSE handle_staff(doc[s], "none", mapping, reversed)]

---------------------------------------------------------------------------
(* Tie Repairer: add_missing_ties, missing_ties.py.  A chord is referred   *)
(* to by <<s, m, v, e>>.                                                   *)

ChordAt(doc, ref) == doc[ref[1]].measures[ref[2]].voices[ref[3]][ref[4]]

\* Lines 22-42, one staff: a chord starting a tie is recorded under its
\* position, and the chord after it joins it
RECURSIVE TieScan(_, _, _, _, _)
TieScan(chords, i, s, span_index, tied) ==
    IF i > Len(chords) THEN tied
    ELSE LET it == chords[i]
             ref == <<s, it.m, it.v, it.e>>
             key == <<it.measure_index, it.time_pos>>
         IN  IF span_index # <<>>
             THEN TieScan(chords, i + 1, s, <<>>,
                          DictSet(tied, span_index[1], Append(tied[span_index[1]], ref)))
             ELSE IF FindSpanner(it.element, "Tie").mark = "next"
             THEN TieScan(chords, i + 1, s, <<key>>, DictSet(tied, key, <<ref>>))
             ELSE TieScan(chords, i + 1, s, <<>>, tied)

RECURSIVE tied_notes_by_measure_time_pos(_, _, _)
tied_notes_by_measure_time_pos(doc, s, tied) ==
    IF s > Len(doc) THEN tied
    ELSE tied_notes_by_measure_time_pos(doc, s + 1,
            TieScan(staff_chords(doc[s]), 1, s, <<>>, tied))

\* Lines 50-84: the chords without a tie that sit where a tie starts, each
\* with the chord without a tie that follows it
RECURSIVE CandidateScan(_, _, _, _)
CandidateScan(chords, i, tied, new_tied_notes) ==
    IF i > Len(chords) THEN new_tied_notes
    ELSE LET it == chords[i]
             key == <<it.measure_index, it.time_pos>>
             n == Len(new_tied_notes)
             joined == IF n > 0 /\ Len(new_tied_notes[n]) = 1
                       THEN [new_tied_notes EXCEPT ![n] = Append(@, it)]
                       ELSE new_tied_notes
         IN  IF FindSpanner(it.element, "Tie") # NoSpanner
             THEN CandidateScan(chords, i + 1, tied, new_tied_notes)
             ELSE CandidateScan(chords, i + 1, tied,
                    IF DictGet(tied, key, <<>>) # <<>>
                    THEN Append(joined, <<it>>)
                    ELSE joined)

AddSpanner(doc, s, it, spanner) ==
    [doc EXCEPT ![s] =
        SetElement(doc[s], it.m, it.v, it.e,
            [ChordAt(doc, <<s, it.m, it.v, it.e>>) EXCEPT !.spanners = Append(@, spanner)])]

\* Lines 89-143: a pair takes the ties of the recorded pair when the
\* durations agree
RECURSIVE ApplyPairs(_, _, _, _, _)
ApplyPairs(doc, s, pairs, i, tied) ==
    IF i > Len(pairs) THEN doc
    ELSE LET pair == pairs[i]
             parent_pair == DictGet(tied, <<pair[1].measure_index, pair[1].time_pos>>, <<>>)
         IN  IF Len(pair) # 2 \/ Len(parent_pair) # 2
             THEN ApplyPairs(doc, s, pairs, i + 1, tied)
             ELSE LET parent1 == ChordAt(doc, parent_pair[1])
                      parent2 == ChordAt(doc, parent_pair[2])
                      spanner1 == FindSpanner(parent1, "Tie")
                      spanner2 == FindSpanner(parent2, "Tie")
                  IN  IF \/ resolve_duration(pair[1].element.durationType, 0)
                               # resolve_duration(parent1.durationType, 0)
                         \/ resolve_duration(pair[2].element.durationType, 0)
                               # resolve_duration(parent2.durationType, 0)
                         \/ spanner1 = NoSpanner
                         \/ spanner2 = NoSpanner
                         \/ pair[1].element.notes = <<>>
                         \/ pair[2].element.notes = <<>>
                      THEN ApplyPairs(doc, s, pairs, i + 1, tied)
                      ELSE ApplyPairs(
                              AddSpanner(AddSpanner(doc, s, pair[1], spanner1),
                                         s, pair[2], spanner2),
                              s, pairs, i + 1, tied)

RECURSIVE TieStaffs(_, _, _)
TieStaffs(doc, s, tied) ==
    IF s > Len(doc) THEN doc
    ELSE TieStaffs(
            ApplyPairs(doc, s, CandidateScan(staff_chords(doc[s]), 1, tied, <<>>), 1, tied),
            s + 1, tied)

add_missing_ties(doc) ==
    TieStaffs(doc, 1, tied_notes_by_measure_time_pos(doc, 1, EmptyDict))

---------------------------------------------------------------------------
(* Lyric Redistributor: lyrics.py lines 40-101, 143-341 and 427-458.       *)

NoLyric == Lyr(<<>>, "", <<>>)

Candidates(choices, Fits(_)) == { i \in 1..Len(choices) : Fits(choices[i]) }

\* find_lyric trying the candidates of the staff before those of the staff
\* and voice
find_lyric_staff_first(table, mapping, staff_id, measure_index, voice_index, time_pos) ==
    LET key == <<measure_index, time_pos>>
    IN  IF key \notin DOMAIN table THEN <<FALSE, NoLyric, table>>
        ELSE LET choices == table[key]
                 original_staff_id == get_original_staff_id(mapping, staff_id)
                 upper_staff_id == original_staff_id - 2
                 Upper(c) == /\ voice_index = 0
                             /\ c.staff_id = upper_staff_id
                             /\ c.lyric.no = <<"1">>
                 SameStaff(c) == c.staff_id = original_staff_id
                 SameVoice(c) == c.voice_index = voice_index
                 Each(c) == TRUE
                 p1 == Candidates(choices, Upper)
                 p3 == Candidates(choices, SameStaff)
                 p4 == Candidates(choices, SameVoice)
                 p5 == Candidates(choices, Each)
             IN  IF p1 # {}
                 THEN << TRUE, [choices[SetMin(p1)].lyric EXCEPT !.no = <<>>],
                         [table EXCEPT ![key][SetMin(p1)].lyric.no = <<>>] >>
                 ELSE IF p3 # {} THEN <<TRUE, choices[SetMin(p3)].lyric, table>>
                 ELSE IF p4 # {} THEN <<TRUE, choices[SetMin(p4)].lyric, table>>
                 ELSE IF p5 # {} THEN <<TRUE, choices[SetMin(p5)].lyric, table>>
                 ELSE <<FALSE, NoLyric, table>>

\* find_lyric: <<found, the lyric, the table>>.  The first class of
\* candidates is returned with its verse marker emptied in the table.
find_lyric(table, mapping, staff_id, measure_index, voice_index, time_pos) ==
    LET key == <<measure_index, time_pos>>
    IN  IF key \notin DOMAIN table THEN <<FALSE, NoLyric, table>>
        ELSE LET choices == table[key]
                 original_staff_id == get_original_staff_id(mapping, staff_id)
                 upper_staff_id == original_staff_id - 2
                 Upper(c) == /\ voice_index = 0
                             /\ c.staff_id = upper_staff_id
                             /\ c.lyric.no = <<"1">>
                 Exact(c) == c.voice_index = voice_index /\ c.staff_id = original_staff_id
                 SameStaff(c) == c.staff_id = original_staff_id
                 SameVoice(c) == c.voice_index = voice_index
                 Each(c) == TRUE
                 p1 == Candidates(choices, Upper)
                 p2 == Candidates(choices, Exact)
                 p3 == Candidates(choices, SameStaff)
                 p4 == Candidates(choices, SameVoice)
                 p5 == Candidates(choices, Each)
             IN  IF p1 # {}
                 THEN << TRUE, [choices[SetMin(p1)].lyric EXCEPT !.no = <<>>],
                         [table EXCEPT ![key][SetMin(p1)].lyric.no = <<>>] >>
                 ELSE IF p2 # {} THEN <<TRUE, choices[SetMin(p2)].lyric, table>>
                 ELSE IF p3 # {} THEN <<TRUE, choices[SetMin(p3)].lyric, table>>
                 ELSE IF p4 # {} THEN <<TRUE, choices[SetMin(p4)].lyric, table>>
                 ELSE IF p5 # {} THEN <<TRUE, choices[SetMin(p5)].lyric, table>>
                 ELSE <<FALSE, NoLyric, table>>

create_lyric_element(syllabic, text, no) == Lyr(no, syllabic, text)

\* Lines 181-197: the chord takes the lyric found, r, in place of its own
RECURSIVE PlaceLyrics(_, _, _, _, _, _)
PlaceFound(staff, chords, i, mapping, found_lyrics, r) ==
    PlaceLyrics(
        IF r[1]
        THEN SetElement(staff, chords[i].m, chords[i].v, chords[i].e,
                [chords[i].element EXCEPT !.lyrics =
                    <<create_lyric_element(r[2].syllabic, r[2].text, r[2].no)>>])
        ELSE staff,
        chords, i + 1, r[3], mapping,
        Append(found_lyrics, [found |-> r[1], lyric |-> r[2], item |-> chords[i]]))

\* Lines 164-197: every chord with a lyric at its position gets that lyric
\* in place of its own.  The result is <<staff, table, found_lyrics>>.
PlaceLyrics(staff, chords, i, table, mapping, found_lyrics) ==
    IF i > Len(chords) THEN <<staff, table, found_lyrics>>
    ELSE PlaceFound(staff, chords, i, mapping, found_lyrics,
            find_lyric(table, mapping, chords[i].staff_id, chords[i].measure_index,
                       chords[i].voice_index, chords[i].time_pos))

cmp_keys(key1, key2) ==
    IF key1[1] < key2[1] THEN -1
    ELSE IF key1[1] > key2[1] THEN 1
    ELSE key1[2] - key2[2]

\* Lines 227-230: the keys of the table in ascending order
RECURSIVE SortedKeys(_)
SortedKeys(S) ==
    IF S = {} THEN <<>>
    ELSE LET first == CHOOSE k \in S : \A o \in S : cmp_keys(k, o) <= 0
         IN  <<first>> \o SortedKeys(S \ {first})

\* Lines 250-292: <<prev_time_pos_key, next_time_pos_key>>, each a sequence
\* of length 0 or 1
neighbour_keys(keys, time_pos_key) ==
    LET past == { i \in 1..Len(keys) : cmp_keys(keys[i], time_pos_key) > 0 }
        n == Len(keys)
        raw == IF past # {}
               THEN << IF SetMin(past) > 1 THEN <<keys[SetMin(past) - 1]>> ELSE <<>>,
                       <<keys[SetMin(past)]>> >>
               ELSE IF n > 0 /\ cmp_keys(time_pos_key, keys[n]) = 0
               THEN << IF n > 1 THEN <<keys[n - 1]>> ELSE <<>>, <<>> >>
               ELSE IF n > 0 /\ cmp_keys(time_pos_key, keys[1]) < 0
               THEN << <<>>, <<keys[1]>> >>
               ELSE << <<>>, <<>> >>
    IN  << IF raw[1] # <<>> /\ raw[1][1][1] - time_pos_key[1] < 0 THEN <<>> ELSE raw[1],
           IF raw[2] # <<>> /\ raw[2][1][1] - time_pos_key[1] > 0 THEN <<>> ELSE raw[2] >>

\* chord.find Tie, else Slur
TieOrSlur(chord) ==
    IF FindSpanner(chord, "Tie") # NoSpanner THEN FindSpanner(chord, "Tie")
    ELSE FindSpanner(chord, "Slur")

\* Lines 294-312: find_lyric at a neighbouring key (a sequence of length 0
\* or 1), for the staff and the voice of the chord
neighbour_lyric(table, mapping, it, key) ==
    IF key = <<>> THEN <<FALSE, NoLyric, table>>
    ELSE find_lyric(table, mapping, it.staff_id, key[1][1], it.voice_index, key[1][2])

\* Lines 314-341: the lyric of the previous position is used unless the
\* previous chord already has that text, then the one of the next position
\* likewise; a sequence of length 0 or 1
given_lyric(found_lyrics, index, prev, next) ==
    IF /\ prev[1]
       /\ (index > 1 /\ found_lyrics[index - 1].found
                => prev[2].text # found_lyrics[index - 1].lyric.text)
    THEN <<prev[2]>>
    ELSE IF /\ next[1]
            /\ (index < Len(found_lyrics) /\ found_lyrics[index + 1].found
                    => next[2].text # found_lyrics[index + 1].lyric.text)
    THEN <<next[2]>>
    ELSE <<>>

with_lyric(staff, it, given) ==
    IF given = <<>> THEN staff
    ELSE SetElement(staff, it.m, it.v, it.e,
            [staff.measures[it.m].voices[it.v][it.e] EXCEPT !.lyrics =
                Append(@, create_lyric_element(given[1].syllabic, given[1].text,
                                               given[1].no))])

RECURSIVE FillLyrics(_, _, _, _, _)
FillNext(staff, found_lyrics, index, mapping, prev, next) ==
    FillLyrics(with_lyric(staff, found_lyrics[index].item,
                          given_lyric(found_lyrics, index, prev, next)),
               found_lyrics, index + 1, next[3], mapping)

FillPrev(staff, found_lyrics, index, mapping, keys, prev) ==
    FillNext(staff, found_lyrics, index, mapping, prev,
             neighbour_lyric(prev[3], mapping, found_lyrics[index].item, keys[2]))

FillKeys(staff, found_lyrics, index, table, mapping, keys) ==
    FillPrev(staff, found_lyrics, index, mapping, keys,
             neighbour_lyric(table, mapping, found_lyrics[index].item, keys[1]))

\* Lines 199-341: a chord left without a lyric, and not ending a tie or a
\* slur, takes the lyric of the neighbouring position of its measure when
\* that lyric differs from the one of the neighbouring chord
FillLyrics(staff, found_lyrics, index, table, mapping) ==
    IF index > Len(found_lyrics) THEN <<staff, table>>
    ELSE IF \/ found_lyrics[index].found
            \/ TieOrSlur(found_lyrics[index].item.element).mark = "prev"
    THEN FillLyrics(staff, found_lyrics, index + 1, table, mapping)
    ELSE FillKeys(staff, found_lyrics, index, table, mapping,
            neighbour_keys(SortedKeys(DOMAIN table),
                           << found_lyrics[index].item.measure_index,
                              found_lyrics[index].item.time_pos >>))

fill_placed(placed, mapping) == FillLyrics(placed[1], placed[3], 1, placed[2], mapping)

\* add_lyrics_to_staff: <<staff, table>>
add_lyrics_to_staff(staff, table, mapping) ==
    fill_placed(PlaceLyrics(staff, staff_chords(staff), 1, table, mapping, <<>>), mapping)

\* main.py lines 378-379: <<document, table>>
RECURSIVE add_lyrics_to_staffs(_, _, _, _)
staff_done(doc, s, r, mapping) ==
    add_lyrics_to_staffs(ReplaceStaff(doc, s, r[1]), s + 1, r[2], mapping)

add_lyrics_to_staffs(doc, s, table, mapping) ==
    IF s > Len(doc) THEN <<doc, table>>
    ELSE staff_done(doc, s, add_lyrics_to_staff(doc[s], table, mapping), mapping)

\* root.findall(".//Chord"): the chords of the document in document order
doc_chords(doc) ==
    Flatten([s \in 1..Len(doc) |->
        LET chords == staff_chords(doc[s])
        IN  [i \in 1..Len(chords) |-> <<s, chords[i].m, chords[i].v, chords[i].e>>]])

\* remove_lyrics_from_chord_with_tie_prev
RECURSIVE TieSweep(_, _, _, _)
TieSweep(doc, refs, i, previous_spanner) ==
    IF i > Len(refs) THEN doc
    ELSE LET ref == refs[i]
             chord == ChordAt(doc, ref)
             spanner == TieOrSlur(chord)
         IN  IF previous_spanner
             THEN TieSweep(
                    [doc EXCEPT ![ref[1]] =
                        SetElement(doc[ref[1]], ref[2], ref[3], ref[4],
                                   [chord EXCEPT !.lyrics = <<>>])],
                    refs, i + 1, spanner.mark # "prev")
             ELSE TieSweep(doc, refs, i + 1, spanner # NoSpanner)

remove_lyrics_from_chord_with_tie_prev(doc) ==
    TieSweep(doc, doc_chords(doc), 1, FALSE)

---------------------------------------------------------------------------
(* The documents the pipeline is run on.  Staffs are numbered from 1 in    *)
(* document order, in the parts as in the score, as MuseScore writes them. *)
(* Staff 1 has a first measure of one or two voices built from all voice   *)
(* kinds, and possibly a second measure; a second staff may follow.  The   *)
(* stubs are spread one per part or all in one part.                       *)

MaxSplitStaffs == 2

SplitChord(durationType, notes, stem, lyrics, spanners) ==
    [tag |-> "Chord", durationType |-> durationType, dots |-> 0,
     spanners |-> spanners, lyrics |-> lyrics, notes |-> notes, stem |-> stem]

La == Lyr(<<>>, "single", <<"a">>)
Lb == Lyr(<<>>, "single", <<"b">>)

\* A voice of pitch p and stem direction st: two quarters without lyric,
\* with a syllable on the first or on the second, with a verse-2 syllable
\* on the first, or one half note
UpperVoices ==
    UNION { { << SplitChord("quarter", <<p>>, st, <<>>, <<>>),
                 SplitChord("quarter", <<p>>, st, <<>>, <<>>) >>,
              << SplitChord("quarter", <<p>>, st, <<La>>, <<>>),
                 SplitChord("quarter", <<p>>, st, <<>>, <<>>) >>,
              << SplitChord("quarter", <<p>>, st, <<>>, <<>>),
                 SplitChord("quarter", <<p>>, st, <<Lb>>, <<>>) >>,
              << SplitChord("quarter", <<p>>, st, <<V2>>, <<>>),
                 SplitChord("quarter", <<p>>, st, <<>>, <<>>) >>,
              << SplitChord("half", <<p>>, st, <<>>, <<>>) >> } :
            p \in {60, 70}, st \in {"", "up", "down"} }

\* The second voice lies between the two pitches of the first, so that it is
\* below it in some documents and above it in others
LowerVoices ==
    UNION { { << SplitChord("quarter", <<p>>, st, <<>>, <<>>),
                 SplitChord("quarter", <<p>>, st, <<>>, <<>>) >>,
              << SplitChord("quarter", <<p>>, st, <<La>>, <<>>),
                 SplitChord("quarter", <<p>>, st, <<>>, <<>>) >>,
              << SplitChord("quarter", <<p>>, st, <<>>, <<>>),
                 SplitChord("quarter", <<p>>, st, <<Lb>>, <<>>) >> } :
            p \in {65}, st \in {"", "up", "down"} }

SplitMeasure(voices) == [len |-> <<>>, voices |-> voices]

FirstMeasures ==
    { SplitMeasure(<<a>>) : a \in UpperVoices }
    \cup { SplitMeasure(<<a, b>>) : a \in UpperVoices, b \in LowerVoices }

Plain(p) == SplitChord("quarter", <<p>>, "", <<>>, <<>>)

\* A second measure: none; one voice opening with a time signature; two
\* voices with the stems of the upper line in voice 1 and a syllable there;
\* two voices the first of which is tied over, the second carrying a
\* syllable on the second beat; the same with a dotted first chord in the
\* second voice
SecondMeasures ==
    { <<>>,
      << SplitMeasure(<< <<TimeSig(2, 4), Plain(60), Plain(60)>> >>) >>,
      << SplitMeasure(<< << SplitChord("quarter", <<60>>, "down", <<>>, <<>>),
                            SplitChord("quarter", <<60>>, "down", <<>>, <<>>) >>,
                         << SplitChord("quarter", <<70>>, "up", <<La>>, <<>>),
                            SplitChord("quarter", <<70>>, "up", <<>>, <<>>) >> >>) >>,
      << SplitMeasure(<< << SplitChord("quarter", <<70>>, "", <<>>, <<Spn("Tie", "next")>>),
                            SplitChord("quarter", <<70>>, "", <<>>, <<Spn("Tie", "prev")>>) >>,
                         << Plain(60),
                            SplitChord("quarter", <<60>>, "", <<Lb>>, <<>>) >> >>) >>,
      << SplitMeasure(<< << SplitChord("quarter", <<70>>, "", <<>>, <<Spn("Tie", "next")>>),
                            SplitChord("quarter", <<70>>, "", <<>>, <<Spn("Tie", "prev")>>) >>,
                         << [Plain(60) EXCEPT !.dots = 1], Plain(60) >> >>) >> }

\* A second staff: one voice of two-note chords under a dynamic mark; two
\* voices; three voices, the second and the third of the same pitch above
\* the first
SecondStaffs ==
    { << SplitMeasure(<< << [tag |-> "Dynamic"],
                            SplitChord("quarter", <<60, 70>>, "", <<>>, <<>>),
                            SplitChord("quarter", <<70, 60>>, "up", <<Lb>>, <<>>) >> >>) >>,
      << SplitMeasure(<< << Plain(70), [tag |-> "Rest", durationType |-> "quarter", dots |-> 0] >>,
                         << SplitChord("quarter", <<60>>, "", <<La>>, <<>>), Plain(60) >> >>) >>,
      << SplitMeasure(<< <<Plain(60), Plain(60)>>,
                         <<Plain(70), Plain(70)>>,
                         <<Plain(70), Plain(70)>> >>) >> }

SplitDocs ==
    { << [id |-> 1, measures |-> <<m1>> \o m2] >> :
            m1 \in FirstMeasures, m2 \in SecondMeasures }
    \cup { << [id |-> 1, measures |-> <<m1>>], [id |-> 2, measures |-> s2] >> :
            m1 \in FirstMeasures, s2 \in SecondStaffs }

\* The parts of a document of n staffs: a part per staff, or one part of
\* all staffs
PartLayouts(n) ==
    { [s \in 1..n |-> [staffs |-> <<s>>]], << [staffs |-> [s \in 1..n |-> s]] >> }

\* What an earlier run may have left in the tables
StaleTables ==
    [mapping |-> << <<3, 4>> >>,
     reversed |-> DictSet(EmptyDict, 3, DictSet(EmptyDict, 0, TRUE)),
     lyrics |-> DictSet(EmptyDict, <<0, 0>>,
                    << [staff_id |-> 3, measure_index |-> 0, voice_index |-> 0,
                        time_pos |-> 0, lyric |-> Lyr(<<>>, "single", <<"z">>)] >>)]

NoTables == [mapping |-> <<>>, reversed |-> EmptyDict, lyrics |-> EmptyDict]

---------------------------------------------------------------------------
(* The pipeline as a state machine: main() runs its passes in order; the   *)
(* loops over the items of STAFF_MAPPING run one item per step.            *)

InitSplit ==
    /\ score \in SplitDocs
    /\ Len(score) <= MaxSplitStaffs
    /\ orig = score
    /\ score_parts \in PartLayouts(Len(score))
    /\ \E t \in {NoTables} \cup (IF Len(score) = 1 /\ Len(score[1].measures) = 1 THEN {StaleTables} ELSE {}) :
        /\ STAFF_MAPPING = t.mapping
        /\ REVERSED_VOICES_BY_STAFF_MEASURE = t.reversed
        /\ LYRICS_BY_TIMEPOS = t.lyrics
        /\ previous = t
    /\ cursor = 1
    /\ txt = <<>>
    /\ by_measure = EmptyDict
    /\ phase = "loaded"
    /\ part_info = <<>>
    /\ resolved = <<>>
    /\ looked_up = <<>>
    /\ slot_counts = <<>>

\* main() without lines 182-184: the tables are left as they were found
BeginKeepingTables ==
    /\ phase = "loaded"
    /\ score' = preprocess_corrupted_measures(score)
    /\ phase' = "repaired"
    /\ UNCHANGED <<orig, txt, by_measure, score_parts, cursor, GLOBALS>>
    /\ UNCHANGED utilVars

\* Lines 182-197: the tables are reset and the corrupted measures repaired
Begin ==
    /\ phase = "loaded"
    /\ STAFF_MAPPING' = <<>>
    /\ REVERSED_VOICES_BY_STAFF_MEASURE' = EmptyDict
    /\ LYRICS_BY_TIMEPOS' = EmptyDict
    /\ score' = preprocess_corrupted_measures(score)
    /\ phase' = "repaired"
    /\ UNCHANGED <<orig, txt, by_measure, score_parts, cursor>>
    /\ UNCHANGED utilVars

\* Lines 204-245: the staffs are renumbered and the mapping is built
ReassignIds ==
    /\ phase = "repaired"
    /\ \E r \in {reassign_ids(score_parts, score)} :
           /\ score_parts' = r[1]
           /\ score' = r[2]
           /\ STAFF_MAPPING' = r[3]
    /\ cursor' = 1
    /\ phase' = "renumbered"
    /\ UNCHANGED <<orig, txt, by_measure, REVERSED_VOICES_BY_STAFF_MEASURE, LYRICS_BY_TIMEPOS>>
    /\ UNCHANGED utilVars

\* Lines 247-282: a part per staff, and a copy of the part of each split staff
SplitParts ==
    /\ phase = "renumbered"
    /\ score_parts' = split_parts(score_parts, STAFF_MAPPING)
    /\ phase' = "parts_split"
    /\ UNCHANGED <<score, orig, txt, by_measure, STAFF_MAPPING,
                   REVERSED_VOICES_BY_STAFF_MEASURE, LYRICS_BY_TIMEPOS, cursor>>
    /\ UNCHANGED utilVars

\* Lines 284-300, one item: the duplicate of a staff is inserted
InsertDuplicate ==
    /\ phase = "parts_split"
    /\ cursor <= Len(STAFF_MAPPING)
    /\ \E r \in {insert_duplicate(score, REVERSED_VOICES_BY_STAFF_MEASURE,
                                     STAFF_MAPPING[cursor])} :
           /\ score' = r[1]
           /\ REVERSED_VOICES_BY_STAFF_MEASURE' = r[2]
    /\ cursor' = cursor + 1
    /\ UNCHANGED <<orig, txt, by_measure, phase, score_parts, STAFF_MAPPING, LYRICS_BY_TIMEPOS>>
    /\ UNCHANGED utilVars

\* Lines 303-304: the lyrics of all staffs are recorded
ReadLyrics ==
    /\ phase = "parts_split"
    /\ cursor > Len(STAFF_MAPPING)
    /\ LYRICS_BY_TIMEPOS' =
            read_all_lyrics(score, 1, REVERSED_VOICES_BY_STAFF_MEASURE, LYRICS_BY_TIMEPOS)
    /\ cursor' = 1
    /\ phase' = "lyrics_read"
    /\ UNCHANGED <<score, orig, txt, by_measure, score_parts, STAFF_MAPPING,
                   REVERSED_VOICES_BY_STAFF_MEASURE>>
    /\ UNCHANGED utilVars

\* Lines 306-316, one item: the filter runs on the up staff and on its duplicate
FilterPair ==
    /\ phase = "lyrics_read"
    /\ cursor <= Len(STAFF_MAPPING)
    /\ score' = filter_pair(score, STAFF_MAPPING[cursor], STAFF_MAPPING,
                            REVERSED_VOICES_BY_STAFF_MEASURE)
    /\ cursor' = cursor + 1
    /\ UNCHANGED <<orig, txt, by_measure, phase, score_parts, STAFF_MAPPING,
                   REVERSED_VOICES_BY_STAFF_MEASURE, LYRICS_BY_TIMEPOS>>
    /\ UNCHANGED utilVars

\* Lines 319-328: the filter runs on the staffs that were not split
FilterOthers ==
    /\ phase = "lyrics_read"
    /\ cursor > Len(STAFF_MAPPING)
    /\ score' = filter_others(score, STAFF_MAPPING, REVERSED_VOICES_BY_STAFF_MEASURE)
    /\ phase' = "filtered"
    /\ UNCHANGED <<orig, txt, by_measure, score_parts, STAFF_MAPPING,
                   REVERSED_VOICES_BY_STAFF_MEASURE, LYRICS_BY_TIMEPOS, cursor>>
    /\ UNCHANGED utilVars

\* Lines 330-365: the ties are repaired (the part names are not in the state)
RepairTies ==
    /\ phase = "filtered"
    /\ score' = add_missing_ties(score)
    /\ phase' = "tied"
    /\ UNCHANGED <<orig, txt, by_measure, score_parts, STAFF_MAPPING,
                   REVERSED_VOICES_BY_STAFF_MEASURE, LYRICS_BY_TIMEPOS, cursor>>
    /\ UNCHANGED utilVars

\* Lines 367-381: the lyrics are put back and cleared under ties and slurs
Redistribute ==
    /\ phase = "tied"
    /\ \E r \in {add_lyrics_to_staffs(score, 1, LYRICS_BY_TIMEPOS, STAFF_MAPPING)} :
           /\ score' = remove_lyrics_from_chord_with_tie_prev(r[1])
           /\ LYRICS_BY_TIMEPOS' = r[2]
    /\ phase' = "done"
    /\ UNCHANGED <<orig, txt, by_measure, score_parts, STAFF_MAPPING,
                   REVERSED_VOICES_BY_STAFF_MEASURE, cursor>>
    /\ UNCHANGED utilVars

NextSplit ==
    \/ Begin
    \/ ReassignIds
    \/ SplitParts
    \/ InsertDuplicate
    \/ ReadLyrics
    \/ FilterPair
    \/ FilterOthers
    \/ RepairTies
    \/ Redistribute

SpecSplit == InitSplit /\ [][NextSplit]_vars

---------------------------------------------------------------------------
(* Properties of the split pipeline, checked under SpecSplit.              *)

\* The pair of mapping item i has been through the Staff Content Filter
PairFiltered(i) ==
    \/ phase \in {"filtered", "tied", "done"}
    \/ phase = "lyrics_read" /\ i < cursor

OneOrTwoVoices(doc) ==
    \A s \in 1..Len(doc) : \A m \in 1..Len(doc[s].measures) :
        Len(doc[s].measures[m].voices) \in {1, 2}

OneVoiceEach(staff) ==
    \A m \in 1..Len(staff.measures) : Len(staff.measures[m].voices) = 1

\* C2: when every measure of the input has one or two voices, then once the
\* Staff Content Filter has run on the up staff and on the down duplicate of
\* a split pair, both staffs exist and every measure of each of them holds
\* exactly one voice, and this stays so to the end of the pipeline.
C2_OneVoicePerMeasure ==
    OneOrTwoVoices(orig) =>
        \A i \in 1..Len(STAFF_MAPPING) :
            PairFiltered(i) =>
                LET up == FindStaff(score, STAFF_MAPPING[i][1])
                    down == FindStaff(score, STAFF_MAPPING[i][2])
                IN  /\ up # 0
                    /\ down # 0
                    /\ up # down
                    /\ OneVoiceEach(score[up])
                    /\ OneVoiceEach(score[down])

\* The filter has just run on the first pair of a staff that had measures of
\* one voice and measures of two voices
C2_Witness ==
    /\ phase = "lyrics_read"
    /\ cursor = 2
    /\ OneOrTwoVoices(orig)
    /\ \E m \in 1..Len(orig[1].measures) : Len(orig[1].measures[m].voices) = 1
    /\ \E m \in 1..Len(orig[1].measures) : Len(orig[1].measures[m].voices) = 2
    /\ OneVoiceEach(score[FindStaff(score, STAFF_MAPPING[1][1])])
    /\ OneVoiceEach(score[FindStaff(score, STAFF_MAPPING[1][2])])

StaffIds(doc) == { doc[s].id : s \in 1..Len(doc) }

\* C3: from the id reassignment on, and after every duplicate insertion, the
\* ids of the Score staffs are pairwise distinct; the mapping from original
\* to duplicate is injective; no duplicate id is a key of the mapping; and a
\* duplicate that is still to be inserted has an id that no staff holds.
C3_StaffIdsUnique ==
    phase \in {"renumbered", "parts_split", "lyrics_read", "filtered", "tied", "done"} =>
        /\ \A s, t \in 1..Len(score) : score[s].id = score[t].id => s = t
        /\ \A i, j \in 1..Len(STAFF_MAPPING) :
                \/ i = j
                \/ /\ STAFF_MAPPING[i][1] # STAFF_MAPPING[j][1]
                   /\ STAFF_MAPPING[i][2] # STAFF_MAPPING[j][2]
        /\ MappingKeys(STAFF_MAPPING) \cap MappingValues(STAFF_MAPPING) = {}
        /\ phase \in {"renumbered", "parts_split"} =>
                \A i \in 1..Len(STAFF_MAPPING) :
                    i >= cursor => STAFF_MAPPING[i][2] \notin StaffIds(score)

\* Two staffs were split and both duplicates are in the document
C3_Witness ==
    /\ phase = "parts_split"
    /\ Len(STAFF_MAPPING) = 2
    /\ cursor = 3
    /\ Len(score) = 4
    /\ StaffIds(score) = {1, 2, 3, 4}

\* The lyrics of a document, one entry per Lyrics element
AllLyrics(doc) ==
    LET refs == doc_chords(doc)
    IN  Flatten([i \in 1..Len(refs) |-> ChordAt(doc, refs[i]).lyrics])

\* The single staff of the document opens with a measure of two voices that
\* both start with a chord, and the only syllable of the document sits on one
\* of these two chords
OneSyllableAtZero(doc) ==
    /\ Len(doc) = 1
    /\ Len(doc[1].measures[1].voices) = 2
    /\ doc[1].measures[1].voices[1][1].tag = "Chord"
    /\ doc[1].measures[1].voices[2][1].tag = "Chord"
    /\ Len(AllLyrics(doc)) = 1
    /\ Len(doc[1].measures[1].voices[1][1].lyrics)
            + Len(doc[1].measures[1].voices[2][1].lyrics) = 1

\* The staff carries the syllable on a chord at time 0 of its first measure
SyllableAtZero(staff, lyric) ==
    LET chords == staff_chords(staff)
    IN  \E i \in 1..Len(chords) :
            /\ chords[i].measure_index = 0
            /\ chords[i].time_pos = 0
            /\ \E k \in 1..Len(chords[i].element.lyrics) :
                    chords[i].element.lyrics[k].text = lyric.text

OneVoiceInput ==
    \A s \in 1..Len(orig) : \A m \in 1..Len(orig[s].measures) :
        Len(orig[s].measures[m].voices) = 1

\* C15 as stated: on a document with one voice everywhere no step of the
\* pipeline changes the number of staffs or the number of parts, and every
\* step leaves the mapping empty.
C15_CountsUnchanged ==
    [][OneVoiceInput =>
            /\ Len(score') = Len(score)
            /\ Len(score_parts') = Len(score_parts)
            /\ STAFF_MAPPING' = <<>>]_vars

\* C15 amended: on a document with one voice everywhere no step of the
\* pipeline changes the number of staffs, every step leaves the mapping
\* empty, and a step changes the number of parts only to give every staff
\* of a part of several staffs a part of its own: the number of parts is
\* unchanged when every part holds one staff.
C15_StaffCountUnchanged ==
    [][OneVoiceInput =>
            /\ Len(score') = Len(score)
            /\ STAFF_MAPPING' = <<>>
            /\ \/ Len(score_parts') = Len(score_parts)
               \/ /\ \E p \in 1..Len(score_parts) : Len(score_parts[p].staffs) > 1
                  /\ Len(score_parts') = Len(PartStubs(score_parts))
                  /\ \A p \in 1..Len(score_parts') : Len(score_parts'[p].staffs) = 1]_vars

\* The pipeline has run to its end on a document of two staffs with one
\* voice everywhere: two staffs, two parts, no mapping.
C15_Witness ==
    /\ phase = "done"
    /\ OneVoiceInput
    /\ Len(orig) = 2
    /\ Len(score) = 2
    /\ Len(score_parts) = 2
    /\ STAFF_MAPPING = <<>>


\* The notes of the chords of a voice, in order
NotesOf(voice) ==
    [e \in 1..Len(SelectSeq(voice, LAMBDA el : el.tag = "Chord")) |->
        SelectSeq(voice, LAMBDA el : el.tag = "Chord")[e].notes]

\* Of the two voices of a measure the one with index x (0 or 1) is gone
\* and the other one is left
VoiceDeleted(before, after, x) ==
    /\ Len(after.voices) = 1
    /\ NotesOf(after.voices[1]) = NotesOf(before.voices[2 - x])

\* The step filters the staff with id sid in direction dir: x(reversed) is
\* the index of the voice that is gone from each of its two-voice measures
FilterDeletes(sid, x(_)) ==
    \A m \in 1..Len(score[FindStaff(score, sid)].measures) :
        Len(score[FindStaff(score, sid)].measures[m].voices) = 2 =>
            VoiceDeleted(score[FindStaff(score, sid)].measures[m],
                         score'[FindStaff(score, sid)].measures[m],
                         x(is_reversed(REVERSED_VOICES_BY_STAFF_MEASURE,
                                       get_original_staff_id(STAFF_MAPPING, sid), m - 1)))

\* The step is the filter of the pair of a mapping item
FilterStep == phase = "lyrics_read" /\ cursor <= Len(STAFF_MAPPING) /\ cursor' = cursor + 1

\* C16 as stated: when the filter runs on a pair, every two-voice measure of
\* the "down" staff loses voice 1, or voice 0 when the measure is flagged
\* reversed, and every two-voice measure of the "up" staff loses voice 0, or
\* voice 1 when the measure is flagged reversed.
C16_DownDeletesOne ==
    [][FilterStep =>
            /\ FilterDeletes(STAFF_MAPPING[cursor][2], LAMBDA r : IF r THEN 0 ELSE 1)
            /\ FilterDeletes(STAFF_MAPPING[cursor][1], LAMBDA r : IF r THEN 1 ELSE 0)]_vars

\* C16 amended: when the filter runs on a pair, every two-voice measure of
\* the "up" staff loses voice 1, or voice 0 when the measure is flagged
\* reversed, and every two-voice measure of the "down" staff loses voice 0,
\* or voice 1 when the measure is flagged reversed.
C16_UpDeletesOne ==
    [][FilterStep =>
            /\ FilterDeletes(STAFF_MAPPING[cursor][1], LAMBDA r : IF r THEN 0 ELSE 1)
            /\ FilterDeletes(STAFF_MAPPING[cursor][2], LAMBDA r : IF r THEN 1 ELSE 0)]_vars

\* A staff of two measures has been split and filtered; its first measure is
\* flagged reversed and the second is not: the "up" staff holds voice 1 of
\* the first measure and voice 0 of the second, the "down" staff the others.
C16_Witness ==
    /\ phase = "filtered"
    /\ Len(orig) = 1 /\ Len(orig[1].measures) = 2
    /\ STAFF_MAPPING = << <<1, 2>> >>
    /\ Len(orig[1].measures[1].voices) = 2 /\ Len(orig[1].measures[2].voices) = 2
    /\ is_reversed(REVERSED_VOICES_BY_STAFF_MEASURE, 1, 0)
    /\ ~is_reversed(REVERSED_VOICES_BY_STAFF_MEASURE, 1, 1)
    /\ VoiceDeleted(orig[1].measures[1], score[1].measures[1], 0)
    /\ VoiceDeleted(orig[1].measures[1], score[2].measures[1], 1)
    /\ VoiceDeleted(orig[1].measures[2], score[1].measures[2], 1)
    /\ VoiceDeleted(orig[1].measures[2], score[2].measures[2], 0)


\* The staff of the document the pipeline was started on that the staff at
\* place p of the document came from, once the duplicates are inserted
OrigIndex(p) ==
    Cardinality({ q \in 1..p : score[q].id \notin MappingValues(STAFF_MAPPING) })

\* The most recent element with the tag at or before measure m of a staff,
\* as a sequence of length 0 or 1
RECURSIVE LastSeen(_, _, _)
LastSeen(staff, m, tag) ==
    IF m < 1 THEN <<>>
    ELSE IF FirstOfTag(staff.measures[m], tag) # <<>>
    THEN FirstOfTag(staff.measures[m], tag)
    ELSE LastSeen(staff, m - 1, tag)

\* The voice has the element among the signatures it starts with
OpensWith(voice, el) ==
    \E e \in 1..Len(voice) :
        /\ voice[e] = el
        /\ \A k \in 1..e : voice[k].tag \in {"TimeSig", "KeySig", "Clef"}

\* C17: once the filter has run on both staffs of a split pair, the voice
\* of every measure of the two staffs starts with the time signature, the
\* key signature and the clef last seen at or before that measure in the
\* staff they came from; 4/4 and no accidentals stand in when none was seen.
C17_SignaturesCarried ==
    \A i \in 1..Len(STAFF_MAPPING) : PairFiltered(i) =>
        \A p \in 1..Len(score) : score[p].id \in {STAFF_MAPPING[i][1], STAFF_MAPPING[i][2]} =>
            \A m \in 1..Len(score[p].measures) :
                \A v \in 1..Len(score[p].measures[m].voices) :
                    /\ OpensWith(score[p].measures[m].voices[v],
                            IF LastSeen(orig[OrigIndex(p)], m, "TimeSig") = <<>>
                            THEN default_timesig
                            ELSE LastSeen(orig[OrigIndex(p)], m, "TimeSig")[1])
                    /\ OpensWith(score[p].measures[m].voices[v],
                            IF LastSeen(orig[OrigIndex(p)], m, "KeySig") = <<>>
                            THEN default_keysig
                            ELSE LastSeen(orig[OrigIndex(p)], m, "KeySig")[1])
                    /\ LastSeen(orig[OrigIndex(p)], m, "Clef") # <<>> =>
                            OpensWith(score[p].measures[m].voices[v],
                                       LastSeen(orig[OrigIndex(p)], m, "Clef")[1])

\* A staff of two measures has been split and filtered: the first measure
\* of the upper staff starts with 4/4 and no accidentals, its second
\* measure starts with a chord.
C17_NotCarried ==
    /\ phase = "filtered"
    /\ STAFF_MAPPING = << <<1, 2>> >>
    /\ Len(score[1].measures) = 2
    /\ OpensWith(score[1].measures[1].voices[1], default_timesig)
    /\ OpensWith(score[1].measures[1].voices[1], default_keysig)
    /\ score[1].measures[2].voices[1][1].tag = "Chord"


\* The step is the detection on the staff of a mapping item and the
\* insertion of its duplicate
DetectStep ==
    phase = "parts_split" /\ cursor <= Len(STAFF_MAPPING) /\ cursor' = cursor + 1

\* The chords of measure m of a staff that start at the time the chord at
\* <<v, e>> starts, as places <<voice, element>>
Coinciding(staff, m, v, e) ==
    { c \in UNION { { <<w, f>> : f \in 1..Len(staff.measures[m].voices[w]) } :
                    w \in 1..Len(staff.measures[m].voices) } :
        /\ staff.measures[m].voices[c[1]][c[2]].tag = "Chord"
        /\ TimePosAt(staff.measures[m].voices[c[1]], c[2])
              = TimePosAt(staff.measures[m].voices[v], e) }

Earlier(c, d) == c[1] < d[1] \/ (c[1] = d[1] /\ c[2] < d[2])

\* The chord at <<v, e>> is the highest of those it sounds with: none is
\* higher, and none before it in document order is as high
IsHighest(staff, m, v, e) ==
    \A c \in Coinciding(staff, m, v, e) :
        /\ staff.measures[m].voices[c[1]][c[2]].notes[1]
              <= staff.measures[m].voices[v][e].notes[1]
        /\ Earlier(c, <<v, e>>) =>
              staff.measures[m].voices[c[1]][c[2]].notes[1]
                  < staff.measures[m].voices[v][e].notes[1]

\* What the detection makes of the chord at <<m, v, e>> of the staff
StemAfter(before, after, m, v, e) ==
    IF MeasureHasStem(before.measures[m])
          \/ Cardinality(Coinciding(before, m, v, e)) < 2
    THEN after.measures[m].voices[v][e] = before.measures[m].voices[v][e]
    ELSE after.measures[m].voices[v][e] =
            [before.measures[m].voices[v][e] EXCEPT
                !.stem = IF IsHighest(before, m, v, e) THEN "up" ELSE "down"]

\* C18: the detection on a staff leaves every chord as it was in a measure
\* that holds a chord with a stem direction, and every chord that starts
\* alone at its time; in a measure without any stem direction, of the
\* chords starting at the same time the highest gets "up" (the earliest in
\* document order of those equally high) and the others get "down".
C18_StemInference ==
    [][DetectStep =>
        \E s \in {FindStaff(score, STAFF_MAPPING[cursor][1])} :
            /\ s # 0
            /\ Len(score'[s].measures) = Len(score[s].measures)
            /\ \A m \in 1..Len(score[s].measures) :
                  \A v \in 1..Len(score[s].measures[m].voices) :
                      \A e \in 1..Len(score[s].measures[m].voices[v]) :
                          score[s].measures[m].voices[v][e].tag = "Chord" =>
                              StemAfter(score[s], score'[s], m, v, e)]_vars

\* The detection has run on a staff of three voices without stem
\* directions, the second and third voice equally high above the first: the
\* second got "up", the first and the third "down".
C18_Witness ==
    /\ phase = "parts_split"
    /\ cursor > Len(STAFF_MAPPING)
    /\ Len(orig) = 2
    /\ Len(orig[2].measures[1].voices) = 3
    /\ \E p \in 1..Len(score) :
          /\ Len(score[p].measures[1].voices) = 3
          /\ score[p].measures[1].voices[1][1].stem = "down"
          /\ score[p].measures[1].voices[2][1].stem = "up"
          /\ score[p].measures[1].voices[3][1].stem = "down"
          /\ score[p].measures[1].voices[2][1].notes
                = score[p].measures[1].voices[3][1].notes


\* Measure m of the staff holds a chord whose stem direction does not go
\* with its voice: "up" outside the first voice, "down" outside the second
StemMismatch(staff, m) ==
    \E v \in 1..Len(staff.measures[m].voices) :
        \E e \in 1..Len(staff.measures[m].voices[v]) :
            /\ staff.measures[m].voices[v][e].tag = "Chord"
            /\ \/ staff.measures[m].voices[v][e].stem = "up" /\ v # 1
               \/ staff.measures[m].voices[v][e].stem = "down" /\ v # 2

\* C19: after the detection on a staff the table holds for that staff
\* exactly the measures in which some chord has a given or inferred stem
\* direction that does not go with its voice, each flagged TRUE; a measure
\* without any stem direction is not among them; the flags of the other
\* staffs are as they were, and flags the table held for the staff before
\* the detection would make no difference.
C19_ReversedFlag ==
    [][DetectStep =>
        \E s \in {FindStaff(score, STAFF_MAPPING[cursor][1])} :
            /\ s # 0
            /\ score[s].id \in DOMAIN REVERSED_VOICES_BY_STAFF_MEASURE'
            /\ DOMAIN REVERSED_VOICES_BY_STAFF_MEASURE'[score[s].id]
                  = { m - 1 : m \in { k \in 1..Len(score'[s].measures) :
                                        StemMismatch(score'[s], k) } }
            /\ \A i \in DOMAIN REVERSED_VOICES_BY_STAFF_MEASURE'[score[s].id] :
                  REVERSED_VOICES_BY_STAFF_MEASURE'[score[s].id][i] = TRUE
            /\ \A m \in 1..Len(score'[s].measures) :
                  ~MeasureHasStem(score'[s].measures[m]) =>
                      ~is_reversed(REVERSED_VOICES_BY_STAFF_MEASURE', score[s].id, m - 1)
            /\ \A id \in DOMAIN REVERSED_VOICES_BY_STAFF_MEASURE :
                  id # score[s].id =>
                      /\ id \in DOMAIN REVERSED_VOICES_BY_STAFF_MEASURE'
                      /\ REVERSED_VOICES_BY_STAFF_MEASURE'[id]
                            = REVERSED_VOICES_BY_STAFF_MEASURE[id]
            /\ find_reversed_voices_by_staff_measure(score[s],
                    DictSet(REVERSED_VOICES_BY_STAFF_MEASURE, score[s].id,
                            [i \in 0..Len(score[s].measures) |-> TRUE]))[2]
                  = REVERSED_VOICES_BY_STAFF_MEASURE']_vars

\* The detection has run on a staff whose first measure had two voices
\* without stem directions, the second voice above the first, and whose
\* second measure has one voice without stem directions: the first measure
\* is flagged through its inferred stems, the second is not.
C19_Witness ==
    /\ phase = "parts_split"
    /\ cursor > Len(STAFF_MAPPING)
    /\ STAFF_MAPPING = << <<1, 2>> >>
    /\ Len(orig) = 1 /\ Len(orig[1].measures) = 2
    /\ Len(orig[1].measures[1].voices) = 2
    /\ ~MeasureHasStem(orig[1].measures[1])
    /\ StemMismatch(score[1], 1)
    /\ is_reversed(REVERSED_VOICES_BY_STAFF_MEASURE, 1, 0)
    /\ ~MeasureHasStem(score[1].measures[2])
    /\ ~is_reversed(REVERSED_VOICES_BY_STAFF_MEASURE, 1, 1)


\* The step is the tie repair
TieStep == phase = "filtered" /\ phase' = "tied"

\* The chords of a document as <<s, m, v, e>>
AllChords(doc) ==
    UNION { { <<s, staff_chords(doc[s])[i].m, staff_chords(doc[s])[i].v,
                staff_chords(doc[s])[i].e>> : i \in 1..Len(staff_chords(doc[s])) } :
            s \in 1..Len(doc) }

\* The measure index and time position of a chord
PositionOf(doc, c) ==
    <<c[2] - 1, TimePosAt(doc[c[1]].measures[c[2]].voices[c[3]], c[4])>>

\* d is a later chord of the voice of c
LaterInVoice(c, d) ==
    /\ d[1] = c[1] /\ d[3] = c[3]
    /\ d[2] > c[2] \/ (d[2] = c[2] /\ d[4] > c[4])

\* d is the chord that follows c in its voice
FollowsInVoice(doc, c, d) ==
    /\ LaterInVoice(c, d)
    /\ \A x \in AllChords(doc) : LaterInVoice(c, x) => (x = d \/ LaterInVoice(d, x))

\* p starts a tie and q is the chord it is tied to
RecordedPair(doc, p, q) ==
    /\ FindSpanner(ChordAt(doc, p), "Tie").mark = "next"
    /\ FollowsInVoice(doc, p, q)

\* The pair c, d may be given ties: neither has one, c sits where a recorded
\* tie starts, d follows c in its voice, and the durations of c and d, dots
\* included, are those of the recorded pair
Acceptable(doc, c, d) ==
    /\ FindSpanner(ChordAt(doc, c), "Tie") = NoSpanner
    /\ FindSpanner(ChordAt(doc, d), "Tie") = NoSpanner
    /\ FollowsInVoice(doc, c, d)
    /\ \E p \in AllChords(doc), q \in AllChords(doc) :
          /\ RecordedPair(doc, p, q)
          /\ PositionOf(doc, p) = PositionOf(doc, c)
          /\ ElementTicks(ChordAt(doc, c)) = ElementTicks(ChordAt(doc, p))
          /\ ElementTicks(ChordAt(doc, d)) = ElementTicks(ChordAt(doc, q))

\* C20: the tie repair changes a chord only as one of a pair of chords that
\* may be given ties, and then it changes both.
C20_TieAcceptance ==
    [][TieStep =>
        \A c \in AllChords(score) :
            ChordAt(score', c) # ChordAt(score, c) =>
                \E d \in AllChords(score) :
                    /\ ChordAt(score', d) # ChordAt(score, d)
                    /\ Acceptable(score, c, d) \/ Acceptable(score, d, c)]_vars

\* The tie repair has put the start of a tie on a dotted chord; the ties of
\* the document it was started on are on chords without dots.
C20_DottedTied ==
    /\ phase = "tied"
    /\ \A c \in AllChords(orig) :
          ChordAt(orig, c).dots # 0 => FindSpanner(ChordAt(orig, c), "Tie") = NoSpanner
    /\ \E c \in AllChords(score) :
          /\ ChordAt(score, c).dots = 1
          /\ FindSpanner(ChordAt(score, c), "Tie").mark = "next"


---------------------------------------------------------------------------
(* Part-type detection (src/src/clean_score/utils/part_types.py).          *)
(*                                                                         *)
(* A staff is [id, measures] as in the pipeline; a voice may hold Clef     *)
(* elements [tag, concertClefType], the concert clef type being a sequence *)
(* of length 0 (no such child) or 1 (its text, a sequence of characters).  *)
(* The pitches of a chord are its notes.  An absent value (None) is the    *)
(* empty sequence, a present one a sequence of length 1.                   *)

CLEF_F == <<"F">>
CLEF_G == <<"G">>
CLEF_G8VB == <<"G", "8", "v", "b">>

Clef(text) == [tag |-> "Clef", concertClefType |-> text]

\* The elements of a staff in document order
StaffElements(staff) ==
    Flatten([m \in 1..Len(staff.measures) |-> Flatten(staff.measures[m].voices)])

IsClef(el) == el.tag = "Clef"

\* Lines 35-41: the text of the concert clef type of the first Clef of the
\* staff, stripped; G when there is none
concert_clef_type(staff) ==
    LET clefs == SelectSeq(StaffElements(staff), IsClef)
    IN  IF clefs # <<>> /\ clefs[1].concertClefType # <<>>
        THEN Strip(clefs[1].concertClefType[1])
        ELSE CLEF_G

\* Lines 46-49: the pitches of all notes of the staff
RECURSIVE PitchesOf(_)
PitchesOf(els) ==
    IF els = <<>> THEN {}
    ELSE (IF Head(els).tag = "Chord"
          THEN { Head(els).notes[i] : i \in 1..Len(Head(els).notes) }
          ELSE {}) \cup PitchesOf(Tail(els))

\* Lines 44-53
highest_note(staff) ==
    IF PitchesOf(StaffElements(staff)) = {} THEN <<>>
    ELSE <<SetMax(PitchesOf(StaffElements(staff)))>>

lowest_note(staff) ==
    IF PitchesOf(StaffElements(staff)) = {} THEN <<>>
    ELSE <<SetMin(PitchesOf(StaffElements(staff)))>>

\* Lines 73-78: a staff handled before this one was named Soprano
soprano_exists(info) == \E k \in DOMAIN info : info[k].part_name = "Soprano"

\* Lines 87: the first letter of the part name
part_slug(part_name) ==
    CASE part_name = "Bass" -> "B"
      [] part_name = "Tenor" -> "T"
      [] part_name = "Soprano" -> "S"
      [] part_name = "Alto" -> "A"
      [] OTHER -> ""

Named_part(clef_type, part_name) == [clef_type |-> clef_type, part_name |-> part_name]

\* classify_g with the rules tried in the order of the table, the first
\* that applies giving the name
classify_g_in_table_order(lowest, highest, info) ==
    IF lowest # <<>> /\ lowest[1] < 55 THEN Named_part(CLEF_G8VB, "Tenor")
    ELSE IF highest # <<>> /\ highest[1] > 72 THEN Named_part(CLEF_G, "Soprano")
    ELSE IF highest # <<>> /\ highest[1] > 68 /\ soprano_exists(info)
         THEN Named_part(CLEF_G, "Alto")
    ELSE Named_part(CLEF_G, "")

\* Lines 63-80, the branch of the G clef: the tenor rule is applied first;
\* the soprano rule, or else the alto rule, then overwrites its outcome
classify_g(lowest, highest, info) ==
    LET tenor == IF lowest # <<>> /\ lowest[1] < 55
                 THEN Named_part(CLEF_G8VB, "Tenor")
                 ELSE Named_part(CLEF_G, "")
    IN  IF highest # <<>> /\ highest[1] > 72 THEN Named_part(CLEF_G, "Soprano")
        ELSE IF highest # <<>> /\ highest[1] > 68 /\ soprano_exists(info)
             THEN Named_part(CLEF_G, "Alto")
        ELSE tenor

\* Lines 55-80
classify(clef_type, lowest, highest, info) ==
    IF clef_type = CLEF_F
    THEN IF lowest # <<>> /\ lowest[1] < 50 THEN Named_part(clef_type, "Bass")
         ELSE IF highest # <<>> /\ highest[1] > 65 THEN Named_part(clef_type, "Tenor")
         ELSE Named_part(clef_type, "")
    ELSE IF clef_type = CLEF_G THEN classify_g(lowest, highest, info)
    ELSE Named_part(clef_type, "")

\* Lines 82-88
part_entry(staff, c) ==
    [clef_type |-> c.clef_type,
     highest_note |-> highest_note(staff),
     lowest_note |-> lowest_note(staff),
     part_name |-> c.part_name,
     part_slug |-> part_slug(c.part_name),
     part_index |-> 0]

\* Lines 34-88: the staffs in document order; part_index is not yet set
RECURSIVE ClassifyStaffs(_, _, _)
ClassifyStaffs(doc, s, info) ==
    IF s > Len(doc) THEN info
    ELSE ClassifyStaffs(doc, s + 1,
            DictSet(info, doc[s].id,
                part_entry(doc[s],
                    classify(concert_clef_type(doc[s]), lowest_note(doc[s]),
                             highest_note(doc[s]), info))))

\* Lines 90-98: prev_part_name is a sequence of length 0 (None) or 1; an
\* empty name is false in the test of line 94, as None is
RECURSIVE IndexLoop(_, _, _, _)
IndexLoop(info, ids, index, prev_part_name) ==
    IF ids = <<>> THEN info
    ELSE LET name == info[Head(ids)].part_name
             reset == /\ prev_part_name # <<>>
                      /\ prev_part_name[1] # ""
                      /\ name # prev_part_name[1]
             idx == IF reset THEN 1 ELSE index
         IN  IndexLoop([info EXCEPT ![Head(ids)].part_index = idx],
                       Tail(ids), idx + 1, <<name>>)

detect_part_types(doc) ==
    IndexLoop(ClassifyStaffs(doc, 1, EmptyDict),
              SortedSeq(DOMAIN ClassifyStaffs(doc, 1, EmptyDict)), 1, <<>>)

---------------------------------------------------------------------------
(* The documents whose parts are detected: up to MaxPartStaffs staffs,     *)
(* numbered from 1 in document order, each of one measure of one voice: a  *)
(* clef (or none) and two chords, the lowest and the highest note.         *)

MaxPartStaffs == 4

ClefKinds ==
    { <<>>,                                   \* no Clef element
      << Clef(<<>>) >>,                       \* a Clef without concert clef type
      << Clef(<<CLEF_F>>) >>,
      << Clef(<<CLEF_G>>) >>,
      << Clef(<< <<" ", "G", " ">> >>) >>,    \* text with white space around
      << Clef(<<CLEF_G8VB>>) >>,
      << Clef(<<CLEF_F>>), Clef(<<CLEF_G>>) >> }

\* lowest and highest pitch on both sides of each threshold of the table
Ranges ==
    { <<45, 60>>, <<45, 67>>, <<52, 67>>, <<52, 60>>, <<52, 75>>,
      <<60, 75>>, <<60, 70>>, <<52, 70>>, <<60, 65>> }

PartStaffKinds ==
    { << SplitMeasure(<< c \o <<Plain(r[1]), Plain(r[2])>> >>) >> :
            c \in ClefKinds, r \in Ranges }
    \cup { << SplitMeasure(<< c \o << [tag |-> "Rest", durationType |-> "whole", dots |-> 0] >> >>) >> :
            c \in ClefKinds }

\* The staffs named in the checks: a bass, a tenor, a soprano, one that is
\* an alto under a soprano, and one without a name
NamedKinds ==
    { << SplitMeasure(<< c \o <<Plain(r[1]), Plain(r[2])>> >>) >> :
            c \in { << Clef(<<CLEF_F>>) >>, << Clef(<<CLEF_G>>) >> },
            r \in { <<45, 60>>, <<52, 60>>, <<60, 75>>, <<60, 70>> } }

PartDocs ==
    UNION { { [s \in 1..n |-> [id |-> s, measures |-> ms[s]]] :
                ms \in [1..n -> IF n <= 2 THEN PartStaffKinds ELSE NamedKinds] } :
            n \in 1..MaxPartStaffs }

InitParts ==
    /\ NoSplitState
    /\ score \in PartDocs
    /\ orig = score
    /\ txt = <<>>
    /\ by_measure = EmptyDict
    /\ part_info = <<>>
    /\ resolved = <<>>
    /\ previous = <<>>
    /\ looked_up = <<>>
    /\ slot_counts = <<>>
    /\ phase = "loaded"

\* detect_part_types runs once on the document
DetectPartTypes ==
    /\ phase = "loaded"
    /\ part_info' = detect_part_types(score)
    /\ phase' = "detected"
    /\ UNCHANGED <<score, orig, txt, by_measure, resolved, previous, looked_up, slot_counts>>
    /\ UNCHANGED splitVars

NextParts == DetectPartTypes

SpecParts == InitParts /\ [][NextParts]_vars

---------------------------------------------------------------------------
(* Properties of the part-type detection, checked under SpecParts.         *)

Detected == phase = "detected"

\* The staffs of the document, by position
PartStaffs == 1..Len(score)

ClefIs(s, clef) == concert_clef_type(score[s]) = clef

Below(s, bound) == \E p \in PitchesOf(StaffElements(score[s])) : p < bound

Above(s, bound) == \E p \in PitchesOf(StaffElements(score[s])) : p > bound

PartName(s) == part_info[score[s].id].part_name

ClefType(s) == part_info[score[s].id].clef_type

SopranoEarlier(s) == \E t \in 1..(s - 1) : PartName(t) = "Soprano"

PartIndex(s) == part_info[score[s].id].part_index

\* C22: over the staffs in ascending id the part index is 1 on the first
\* staff and on every staff whose part name differs from the name of the
\* staff before it, empty names included, and one more than the index of the
\* staff before it otherwise.
C22_IndexRestarts ==
    Detected =>
        \A s \in PartStaffs :
            PartIndex(s) = (IF s = 1 \/ PartName(s) # PartName(s - 1)
                           THEN 1 ELSE PartIndex(s - 1) + 1)

\* A named staff after a staff without a name goes on counting: of two
\* Tenor staffs, a staff without a name and a third Tenor staff, the third
\* Tenor has index 2
C22_NoRestart ==
    /\ Detected
    /\ \E s \in PartStaffs :
            /\ s > 3
            /\ PartName(s - 3) = "Tenor" /\ PartIndex(s - 3) = 1
            /\ PartName(s - 2) = "Tenor" /\ PartIndex(s - 2) = 2
            /\ PartName(s - 1) = "" /\ PartIndex(s - 1) = 1
            /\ PartName(s) = "Tenor" /\ PartIndex(s) = 2


---------------------------------------------------------------------------
(* Duration resolver (resolve_duration of scripts/clean_score/src/         *)
(* utils.py, lines 13-52) on the text it is given: a sequence of           *)
(* characters.  The outcome of a call is <<"returned", value>> or          *)
(* <<"raised", the exception>>.                                            *)

\* The keys of duration_map as texts
DURATION_NAMES ==
    << <<<<"w", "h", "o", "l", "e">>, "whole">>,
       <<<<"h", "a", "l", "f">>, "half">>,
       <<<<"q", "u", "a", "r", "t", "e", "r">>, "quarter">>,
       <<<<"e", "i", "g", "h", "t", "h">>, "eighth">>,
       <<<<"1", "6", "t", "h">>, "16th">>,
       <<<<"3", "2", "n", "d">>, "32nd">>,
       <<<<"6", "4", "t", "h">>, "64th">>,
       <<<<"1", "2", "8", "t", "h">>, "128th">> >>

\* str.lower() on the letters the texts are made of
LowerChar(c) ==
    CASE c = "A" -> "a" [] c = "F" -> "f" [] c = "H" -> "h" [] c = "L" -> "l"
      [] c = "Q" -> "q" [] OTHER -> c

Lower(s) == [i \in 1..Len(s) |-> LowerChar(s[i])]

\* duration_map.get(text.lower(), 0): the key the text names, or none
NameOfText(s) ==
    IF \E i \in 1..Len(DURATION_NAMES) : DURATION_NAMES[i][1] = Lower(s)
    THEN DURATION_NAMES[CHOOSE i \in 1..Len(DURATION_NAMES) : DURATION_NAMES[i][1] = Lower(s)][2]
    ELSE ""

\* int(text): white space around and a sign before decimal digits;
\* <<TRUE, value>>, or <<FALSE, 0>> for a ValueError
IntOfDigits(s, sign) == IF IsDigit(s) THEN <<TRUE, sign * ParseInt(s, 0)>> ELSE <<FALSE, 0>>

int_of_text(s) ==
    IF Strip(s) = <<>> THEN <<FALSE, 0>>
    ELSE IF Head(Strip(s)) = "-" THEN IntOfDigits(Tail(Strip(s)), -1)
    ELSE IF Head(Strip(s)) = "+" THEN IntOfDigits(Tail(Strip(s)), 1)
    ELSE IntOfDigits(Strip(s), 1)

Returned(value) == <<"returned", value>>

Raised(exception) == <<"raised", exception>>

\* Lines 26-31: the text holds a slash.  Unpacking other than two pieces
\* and int() of a piece that is no integer are ValueErrors, caught; the
\* division by a denominator of 0 is a ZeroDivisionError, not caught
resolve_fraction_text(pieces) ==
    IF Len(pieces) # 2 THEN Returned(0)
    ELSE IF ~int_of_text(pieces[1])[1] \/ ~int_of_text(pieces[2])[1] THEN Returned(0)
    ELSE IF int_of_text(pieces[2])[2] = 0 THEN Raised("ZeroDivisionError")
    ELSE Returned(resolve_fraction(<<int_of_text(pieces[1])[2], int_of_text(pieces[2])[2]>>))

\* Lines 13-52
resolve_duration_text(fraction_or_duration, dots) ==
    IF \E i \in 1..Len(fraction_or_duration) : fraction_or_duration[i] = "/"
    THEN resolve_fraction_text(SplitOn(fraction_or_duration, "/"))
    ELSE Returned(resolve_duration(NameOfText(fraction_or_duration), dots))

---------------------------------------------------------------------------
(* The calls made: every key of duration_map, texts that are no key, and   *)
(* fractions, well-formed or not, each with 0 to MaxDots dots.             *)

MaxDots == 3

NamedTexts == { DURATION_NAMES[i][1] : i \in 1..Len(DURATION_NAMES) }

UnknownTexts ==
    { <<"0">>,
      <<>>,
      <<"b", "r", "e", "v", "e">>,
      <<"Q", "u", "a", "r", "t", "e", "r">>,
      <<"H", "A", "L", "F">>,
      <<"q", "u", "a", "v", "e", "r">>,
      <<"2", "5", "6", "t", "h">> }

FractionTexts ==
    { <<"1", "/", "4">>,
      <<"3", "/", "8">>,
      <<"1", "/", "3">>,
      <<"4", "/", "4">>,
      <<"0", "/", "4">>,
      <<"7", "/", "1", "2", "8">>,
      <<" ", "1", "/", "4">>,
      <<"1", "/", " ", "4">>,
      <<"+", "1", "/", "4">> }

BadFractionTexts ==
    { <<"a", "/", "4">>,
      <<"1", "/", "b">>,
      <<"1", ".", "5", "/", "2">>,
      <<"1", "/", "2", ".", "0">>,
      <<"1", "/">>,
      <<"/">>,
      <<"/", "4">>,
      <<"1", "/", "2", "/", "3">>,
      <<"1", "/", "/", "2">>,
      <<"1", "/", "0">>,
      <<"0", "/", "0">> }

DurationTexts == NamedTexts \cup UnknownTexts \cup FractionTexts \cup BadFractionTexts

InitDuration ==
    /\ NoSplitState
    /\ score = <<>>
    /\ orig = <<>>
    /\ txt = <<>>
    /\ by_measure = EmptyDict
    /\ part_info = <<>>
    /\ previous = <<>>
    /\ looked_up = <<>>
    /\ slot_counts = <<>>
    /\ phase = "loaded"
    /\ \E t \in DurationTexts, d \in 0..MaxDots :
          resolved = [fraction_or_duration |-> t, dots |-> d, outcome |-> <<>>]

\* One call of resolve_duration
Resolve ==
    /\ phase = "loaded"
    /\ resolved' = [resolved EXCEPT !.outcome =
            resolve_duration_text(resolved.fraction_or_duration, resolved.dots)]
    /\ phase' = "resolved"
    /\ UNCHANGED <<score, orig, txt, by_measure, part_info, previous, looked_up, slot_counts>>
    /\ UNCHANGED splitVars

NextDuration == Resolve

SpecDuration == InitDuration /\ [][NextDuration]_vars

---------------------------------------------------------------------------
(* Properties of the duration resolver, checked under SpecDuration.        *)

WasResolved == phase = "resolved"

\* The place of the text called with among the keys of duration_map, from
\* the longest duration to the shortest; 0 when it is no key
DurationClass ==
    IF resolved.fraction_or_duration \in NamedTexts
    THEN CHOOSE i \in 1..Len(DURATION_NAMES) :
            DURATION_NAMES[i][1] = resolved.fraction_or_duration
    ELSE 0

\* The undotted value of the i-th key at resolution 128
BaseValue(i) == 128 \div (2 ^ (i - 1))

\* C23: for every named duration and every number of dots from 0 to 3 the
\* value returned is the base value plus exactly 1/2, 3/4 or 7/8 of it for
\* one, two or three dots (a quarter is 32, a dotted quarter 48), and for a
\* fixed number of dots a longer duration class never resolves to less than
\* a shorter one.
C23_DottedExact ==
    WasResolved /\ DurationClass # 0 /\ resolved.dots \in 0..3 =>
        /\ resolved.outcome[1] = "returned"
        /\ 8 * resolved.outcome[2] =
                BaseValue(DurationClass) *
                    (CASE resolved.dots = 0 -> 8
                       [] resolved.dots = 1 -> 8 + 4
                       [] resolved.dots = 2 -> 8 + 6
                       [] resolved.dots = 3 -> 8 + 7)
        /\ \A i \in 1..Len(DURATION_NAMES) :
                i > DurationClass =>
                    resolve_duration_text(DURATION_NAMES[i][1], resolved.dots)[2]
                        <= resolved.outcome[2]

\* A 128th with one dot resolves to 1 tick, as without the dot
C23_Truncated ==
    /\ WasResolved
    /\ resolved.fraction_or_duration = <<"1", "2", "8", "t", "h">>
    /\ resolved.dots = 1
    /\ resolved.outcome = Returned(1)

\* The text called with is a fraction of two integers with a denominator
\* other than 0
ValidFraction ==
    \E n \in -4..128, d \in (-4..128) \ {0} :
        \E a \in {resolved.fraction_or_duration} :
            /\ Len(SplitOn(a, "/")) = 2
            /\ int_of_text(SplitOn(a, "/")[1]) = <<TRUE, n>>
            /\ int_of_text(SplitOn(a, "/")[2]) = <<TRUE, d>>

\* C24: a call with a text that is neither a key of the duration map (in
\* any case of letters) nor a valid fraction returns 0 and does not raise.
C24_Lenient ==
    WasResolved /\ NameOfText(resolved.fraction_or_duration) = "" /\ ~ValidFraction =>
        resolved.outcome = Returned(0)

\* A fraction with denominator 0 raises
C24_Raised ==
    /\ WasResolved
    /\ resolved.fraction_or_duration = <<"1", "/", "0">>
    /\ resolved.outcome = Raised("ZeroDivisionError")


---------------------------------------------------------------------------
(* One run of main() in a process that has run nothing before: the tables *)
(* are empty, as globals.py creates them, and the passes follow each       *)
(* other.  The result is <<parts, document, STAFF_MAPPING,                 *)
(* REVERSED_VOICES_BY_STAFF_MEASURE, LYRICS_BY_TIMEPOS>>.                  *)

RECURSIVE InsertAll(_, _, _, _)
InsertNext(r, mapping, i) == InsertAll(r[1], r[2], mapping, i + 1)

\* Lines 284-300: <<document, reversed>>
InsertAll(doc, reversed, mapping, i) ==
    IF i > Len(mapping) THEN <<doc, reversed>>
    ELSE InsertNext(insert_duplicate(doc, reversed, mapping[i]), mapping, i)

\* Lines 306-316
RECURSIVE FilterAll(_, _, _, _)
FilterAll(doc, mapping, reversed, i) ==
    IF i > Len(mapping) THEN doc
    ELSE FilterAll(filter_pair(doc, mapping[i], mapping, reversed), mapping, reversed, i + 1)

\* The value of the one element of a set: each pass is computed once and
\* its result handed to the next
TheOne(S) == CHOOSE x \in S : TRUE

\* Lines 367-381
MainRedistributed(ps, mapping, reversed, a) ==
    <<ps, remove_lyrics_from_chord_with_tie_prev(a[1]), mapping, reversed, a[2]>>

\* Lines 306-365
MainFiltered(ps, mapping, ins, table) ==
    TheOne({ MainRedistributed(ps, mapping, ins[2], a) :
        a \in { add_lyrics_to_staffs(
                    add_missing_ties(
                        filter_others(FilterAll(ins[1], mapping, ins[2], 1), mapping, ins[2])),
                    1, table, mapping) } })

\* Lines 247-304
MainRenumbered(r) ==
    TheOne({ TheOne({ MainFiltered(split_parts(r[1], r[3]), r[3], ins, table) :
                        table \in { read_all_lyrics(ins[1], 1, ins[2], EmptyDict) } }) :
        ins \in { InsertAll(r[2], EmptyDict, r[3], 1) } })

main_alone(ps, doc) ==
    TheOne({ MainRenumbered(r) :
        r \in { reassign_ids(ps, preprocess_corrupted_measures(doc)) } })

---------------------------------------------------------------------------
(* Properties of runs that follow a run, checked under SpecSplit.          *)

\* The entries of a table of the previous run that are in the table now
LeftOverMapping ==
    { i \in 1..Len(previous.mapping) :
        \E j \in 1..Len(STAFF_MAPPING) : STAFF_MAPPING[j] = previous.mapping[i] }

LeftOverReversed == DOMAIN previous.reversed \cap DOMAIN REVERSED_VOICES_BY_STAFF_MEASURE

LeftOverLyrics ==
    { k \in DOMAIN previous.lyrics \cap DOMAIN LYRICS_BY_TIMEPOS :
        \E i \in 1..Len(previous.lyrics[k]), j \in 1..Len(LYRICS_BY_TIMEPOS[k]) :
            LYRICS_BY_TIMEPOS[k][j].staff_id = previous.lyrics[k][i].staff_id }

---------------------------------------------------------------------------
(* The partition of the two voices of a split staff.                       *)

\* The staff with id sid, before and after the step
StaffBefore(sid) == score[FindStaff(score, sid)]
StaffAfter(sid) == score'[FindStaff(score, sid)]

\* C27: when the filter runs on a pair, for every two-voice measure of the
\* split staff the "up" staff and the "down" duplicate lose voices of
\* different index, so that each of the two voices the measure had is the
\* one voice left in exactly one of the two staffs, whether or not the
\* measure is flagged reversed.
C27_Partition ==
    [][FilterStep =>
            \A m \in 1..Len(StaffBefore(STAFF_MAPPING[cursor][1]).measures) :
                Len(StaffBefore(STAFF_MAPPING[cursor][1]).measures[m].voices) = 2 =>
                    \E x \in {0, 1} :
                        /\ VoiceDeleted(StaffBefore(STAFF_MAPPING[cursor][1]).measures[m],
                                        StaffAfter(STAFF_MAPPING[cursor][1]).measures[m], x)
                        /\ VoiceDeleted(StaffBefore(STAFF_MAPPING[cursor][1]).measures[m],
                                        StaffAfter(STAFF_MAPPING[cursor][2]).measures[m], 1 - x)
                        /\ VoiceDeleted(StaffBefore(STAFF_MAPPING[cursor][2]).measures[m],
                                        StaffAfter(STAFF_MAPPING[cursor][2]).measures[m], 1 - x)]_vars

\* A staff of two measures has been split and filtered, the two voices of
\* each measure hold different notes, the first measure is flagged reversed
\* and the second is not: in both measures the two staffs hold different
\* voices of the staff as it was.
C27_Witness ==
    /\ phase = "filtered"
    /\ Len(orig) = 1 /\ Len(orig[1].measures) = 2
    /\ STAFF_MAPPING = << <<1, 2>> >>
    /\ \A m \in 1..2 :
            /\ Len(orig[1].measures[m].voices) = 2
            /\ NotesOf(orig[1].measures[m].voices[1]) # NotesOf(orig[1].measures[m].voices[2])
            /\ Len(score[1].measures[m].voices) = 1
            /\ Len(score[2].measures[m].voices) = 1
            /\ NotesOf(score[1].measures[m].voices[1]) # NotesOf(score[2].measures[m].voices[1])
    /\ is_reversed(REVERSED_VOICES_BY_STAFF_MEASURE, 1, 0)
    /\ ~is_reversed(REVERSED_VOICES_BY_STAFF_MEASURE, 1, 1)


---------------------------------------------------------------------------
(* The lyric lookup on its own: find_lyric is called on tables as          *)
(* read_lyrics records them, one call per step.                            *)

MaxCandidates == 3
MaxLookups == 2

\* The staffs of a document of two parts, each split in two
SplitMapping == << <<1, 2>>, <<3, 4>> >>

\* The staffs lyrics are recorded on and the verse markers they carry
RecordedStaffs == {1, 3}
VerseMarkers == {<<>>, <<"1">>}

\* The staffs whose chords are looked up, and the time positions
LookupStaffs == {1, 3, 4}
LookupTimes == {0, 480}

LyricTexts == <<"a", "b", "c", "d", "e">>

\* read_lyrics goes through the staffs in document order and through the
\* voices of a measure one after the other: at one key the entries of a
\* staff follow those of the staffs before it, and the entries of one voice
\* of a staff are not separated by an entry of its other voice
RecordingOrder(kinds) ==
    /\ \A i \in 1..Len(kinds) - 1 : kinds[i][1] <= kinds[i + 1][1]
    /\ \A i, j, k \in 1..Len(kinds) :
            (i < j /\ j < k /\ kinds[i][1] = kinds[k][1] /\ kinds[i][2] = kinds[k][2]) =>
                kinds[j][2] = kinds[i][2]

\* The entries recorded at measure 0, time 0; the i-th holds the i-th text
RecordedChoices ==
    { [i \in 1..Len(kinds) |->
            [staff_id |-> kinds[i][1], measure_index |-> 0, voice_index |-> kinds[i][2],
             time_pos |-> 0, lyric |-> Lyr(kinds[i][3], "single", <<LyricTexts[i]>>)]] :
        kinds \in { ks \in UNION { [1..n -> RecordedStaffs \X {0, 1} \X VerseMarkers] :
                                        n \in 1..MaxCandidates } : RecordingOrder(ks) } }

RecordedTables == {EmptyDict} \cup { DictSet(EmptyDict, <<0, 0>>, c) : c \in RecordedChoices }

InitLookup ==
    /\ score = <<>>
    /\ orig = <<>>
    /\ txt = <<>>
    /\ by_measure = EmptyDict
    /\ score_parts = <<>>
    /\ cursor = 1
    /\ part_info = <<>>
    /\ resolved = <<>>
    /\ looked_up = <<>>
    /\ slot_counts = <<>>
    /\ phase = "lyrics_read"
    /\ REVERSED_VOICES_BY_STAFF_MEASURE = EmptyDict
    /\ STAFF_MAPPING \in {<<>>, SplitMapping}
    /\ LYRICS_BY_TIMEPOS \in RecordedTables
    /\ previous = [mapping |-> STAFF_MAPPING, reversed |-> EmptyDict,
                   lyrics |-> LYRICS_BY_TIMEPOS]

\* One call of find_lyric, as add_lyrics_to_staff makes it for a chord
FindLyric ==
    /\ phase = "lyrics_read"
    /\ Len(looked_up) < MaxLookups
    /\ \E staff_id \in LookupStaffs, voice_index \in {0, 1}, time_pos \in LookupTimes :
        \E r \in {find_lyric(LYRICS_BY_TIMEPOS, STAFF_MAPPING, staff_id, 0,
                             voice_index, time_pos)} :
            /\ LYRICS_BY_TIMEPOS' = r[3]
            /\ looked_up' = Append(looked_up,
                    [staff_id |-> staff_id, measure_index |-> 0,
                     voice_index |-> voice_index, time_pos |-> time_pos,
                     found |-> r[1], lyric |-> r[2]])
    /\ UNCHANGED <<score, orig, txt, by_measure, phase, score_parts, STAFF_MAPPING,
                   REVERSED_VOICES_BY_STAFF_MEASURE, cursor, part_info, resolved, previous,
                   slot_counts>>

NextLookup == FindLyric

SpecLookup == InitLookup /\ [][NextLookup]_vars


---------------------------------------------------------------------------
(* Properties of the lyric lookup.                                         *)

\* The step is a call of find_lyric; TheCall is the call and what it returned
LookupStep == Len(looked_up') = Len(looked_up) + 1
TheCall == looked_up'[Len(looked_up')]

\* The candidates recorded at the measure and time of the call, in
\* recording order, as the table holds them when the call is made
RecordedAt(call) ==
    IF <<call.measure_index, call.time_pos>> \in DOMAIN LYRICS_BY_TIMEPOS
    THEN LYRICS_BY_TIMEPOS[<<call.measure_index, call.time_pos>>]
    ELSE <<>>

\* The staff that the staff was copied from, or the staff itself
OriginalOf(staff_id) ==
    IF \E j \in 1..Len(STAFF_MAPPING) : STAFF_MAPPING[j][2] = staff_id
    THEN STAFF_MAPPING[CHOOSE j \in 1..Len(STAFF_MAPPING) : STAFF_MAPPING[j][2] = staff_id][1]
    ELSE staff_id

\* The candidate c is of class k of the call
InClass(k, call, c) ==
    CASE k = 1 -> /\ call.voice_index = 0
                  /\ c.lyric.no = <<"1">>
                  /\ c.staff_id = OriginalOf(call.staff_id) - 2
      [] k = 2 -> c.voice_index = call.voice_index /\ c.staff_id = OriginalOf(call.staff_id)
      [] k = 3 -> c.staff_id = OriginalOf(call.staff_id)
      [] k = 4 -> c.voice_index = call.voice_index
      [] k = 5 -> TRUE

ClassMembers(k, call) ==
    { i \in 1..Len(RecordedAt(call)) : InClass(k, call, RecordedAt(call)[i]) }

\* The highest-priority class of the call that is not empty, and its first
\* candidate in recording order
BestClass(call) == SetMin({ k \in 1..5 : ClassMembers(k, call) # {} })
FirstOfBestClass(call) == RecordedAt(call)[SetMin(ClassMembers(BestClass(call), call))]

SameArguments(a, b) ==
    /\ a.staff_id = b.staff_id
    /\ a.measure_index = b.measure_index
    /\ a.voice_index = b.voice_index
    /\ a.time_pos = b.time_pos

\* C28: a call of find_lyric leaves the recorded lyric table as it is; it
\* returns what every earlier call with the same arguments returned, and
\* what it would have returned had no call been made before it.
C28_ReadOnly ==
    [][LookupStep =>
            /\ LYRICS_BY_TIMEPOS' = LYRICS_BY_TIMEPOS
            /\ \A i \in 1..Len(looked_up) :
                    SameArguments(looked_up[i], TheCall) =>
                        /\ looked_up[i].found = TheCall.found
                        /\ looked_up[i].lyric = TheCall.lyric
            /\ <<TheCall.found, TheCall.lyric>> =
                    SubSeq(find_lyric(previous.lyrics, STAFF_MAPPING, TheCall.staff_id,
                                      TheCall.measure_index, TheCall.voice_index,
                                      TheCall.time_pos), 1, 2)]_vars

\* Verse "1" of staff 1 and a lyric of voice 0 of staff 3 are recorded at a
\* time; two calls for the chord of voice 0 of staff 3 at that time were
\* made one after the other: the first returned the lyric of staff 1 and
\* emptied its verse marker in the table, the second the lyric of staff 3.
C28_Witness ==
    /\ Len(looked_up) = 2
    /\ SameArguments(looked_up[1], looked_up[2])
    /\ looked_up[1].staff_id = 3 /\ looked_up[1].voice_index = 0
    /\ <<0, 0>> \in DOMAIN previous.lyrics
    /\ Len(previous.lyrics[<<0, 0>>]) = 2
    /\ previous.lyrics[<<0, 0>>][1].staff_id = 1
    /\ previous.lyrics[<<0, 0>>][1].lyric.no = <<"1">>
    /\ previous.lyrics[<<0, 0>>][2].staff_id = 3
    /\ looked_up[1].lyric.text = <<"a">>
    /\ looked_up[2].lyric.text = <<"b">>
    /\ LYRICS_BY_TIMEPOS[<<0, 0>>][1].lyric.no = <<>>


---------------------------------------------------------------------------
(* The three scans of the codec on one document: the document is exported, *)
(* the exported text is imported into a copy of it, and its chords are     *)
(* counted.                                                                *)

\* Number of chords of the staff, spread over its two measures
MaxSlotChords == 3

\* The Spanner elements of a chord: none, one, or two different ones in
\* either order
SpannerKinds ==
    { Spn("Slur", "next"), Spn("Slur", "prev"), Spn("Tie", "next"), Spn("Tie", "prev") }

SpannerPlacements ==
    {<<>>} \cup { <<a>> : a \in SpannerKinds }
           \cup { <<ab[1], ab[2]>> : ab \in { x \in SpannerKinds \X SpannerKinds : x[1] # x[2] } }

\* One staff; its i-th chord carries the i-th text as its verse-1 lyric
SlotScores ==
    { << [id |-> 1,
          measures |-> <<
            CodecMeasure(<< [i \in 1..k |->
                CodecChord(ps[i], <<Lyr(<<>>, "single", <<LyricTexts[i]>>)>>)] >>),
            CodecMeasure(<< [i \in 1..(MaxSlotChords - k) |->
                CodecChord(ps[k + i], <<Lyr(<<>>, "single", <<LyricTexts[k + i]>>)>>)] >>) >>] >> :
        ps \in [1..MaxSlotChords -> SpannerPlacements], k \in 1..MaxSlotChords }

InitSlots ==
    /\ NoSplitState
    /\ score \in SlotScores
    /\ orig = score
    /\ txt = <<>>
    /\ by_measure = EmptyDict
    /\ phase = "loaded"
    /\ NoUtilState

\* _get_chord_counts_per_measure on the document
CountChords ==
    /\ phase = "roundtrip"
    /\ slot_counts' = get_chord_counts_per_measure(score)
    /\ phase' = "counted"
    /\ UNCHANGED <<score, orig, txt, by_measure, part_info, resolved, previous, looked_up>>
    /\ UNCHANGED splitVars

NextSlots == Export \/ ImportExported \/ CountChords

SpecSlots == InitSlots /\ [][NextSlots]_vars

\* The chords of voice 0 of measure m of the staff, as loaded and as they are
LoadedVoice(m) == orig[1].measures[m].voices[1]
VoiceNow(m) == score[1].measures[m].voices[1]

\* The tokens of measure m of the staff in the token table
TokensOf(m) == DictGet(DictGet(by_measure, m, EmptyDict), 1, <<>>)

\* The chords of measure m whose text is a token of the measure
ExportedChords(m) ==
    { p \in 1..Len(LoadedVoice(m)) :
        \E j \in 1..Len(TokensOf(m)) : TokensOf(m)[j] = LoadedVoice(m)[p].lyrics[1].text }

\* The chords of measure m that carry a lyric now
ImportedChords(m) ==
    { p \in 1..Len(LoadedVoice(m)) :
        VoiceNow(m)[p].tag = "Chord" /\ VoiceNow(m)[p].lyrics # <<>> }

\* The chords of measure m that raise the count of the measure by one
CountedChords(m) ==
    { p \in 1..Len(LoadedVoice(m)) :
        CountVoice(SubSeq(LoadedVoice(m), 1, p), 0, FALSE, FALSE) =
            CountVoice(SubSeq(LoadedVoice(m), 1, p - 1), 0, FALSE, FALSE) + 1 }

\* C29: for every measure of the staff, export emits one token per chord of
\* a set of chords, in their order; import of as many syllables puts the
\* j-th syllable on the j-th of these chords and leaves no other chord
\* with a syllable; the count of the measure is the number of these chords,
\* and they are the chords that are counted; whatever Slur and Tie
\* spanners the chords hold.
C29_SlotAgreement ==
    /\ phase \in {"exported", "roundtrip", "counted"} =>
            \A m \in 1..2 :
                /\ Len(TokensOf(m)) = Cardinality(ExportedChords(m))
                /\ \A i, j \in 1..Len(TokensOf(m)) :
                        i < j =>
                            \E p, q \in ExportedChords(m) :
                                /\ p < q
                                /\ LoadedVoice(m)[p].lyrics[1].text = TokensOf(m)[i]
                                /\ LoadedVoice(m)[q].lyrics[1].text = TokensOf(m)[j]
    /\ phase \in {"roundtrip", "counted"} =>
            \A m \in 1..2 :
                /\ ImportedChords(m) = ExportedChords(m)
                /\ \A p \in ImportedChords(m) :
                        VoiceNow(m)[p].lyrics =
                            <<Lyr(<<>>, "single", LoadedVoice(m)[p].lyrics[1].text)>>
    /\ phase = "counted" =>
            \A m \in 1..2 :
                /\ DictGet(DictGet(slot_counts, 1, EmptyDict), m, 0)
                        = Cardinality(ExportedChords(m))
                /\ CountedChords(m) = ExportedChords(m)

\* The first measure holds the start of a slur, a chord under the slur and
\* the end of the slur: the text holds the token of the first chord only,
\* after the import the first chord alone carries a syllable, and the
\* count of the measure is 1.
C29_Witness ==
    /\ phase = "counted"
    /\ Len(LoadedVoice(1)) = 3
    /\ LoadedVoice(1)[1].spanners = <<Spn("Slur", "next")>>
    /\ LoadedVoice(1)[2].spanners = <<>>
    /\ LoadedVoice(1)[3].spanners = <<Spn("Slur", "prev")>>
    /\ TokensOf(1) = << <<"a">> >>
    /\ ImportedChords(1) = {1}
    /\ slot_counts[1][1] = 1


---------------------------------------------------------------------------
(* The roles of the syllables an array-form import places.                 *)

\* The syllables the import applies to measure m of staff sid: the tokens
\* of the table expanded again, the first one continuing a word when the
\* tokens of the measure before end with a hyphen
AppliedSyllables(m, sid) ==
    tokens_to_syllables(by_measure[m][sid],
        last_token_ends_with_hyphen(
            DictGet(DictGet(by_measure, m - 1, EmptyDict), sid, <<>>)))

\* C30: after an array-form import without a split list, for every part key
\* naming a staff and every measure that got syllables of a line, the
\* syllables the import applies to the measure are the syllables of the
\* line that belong to the measure, with the roles and texts that expanding
\* the whole line gives them.
C30_RolesKept ==
    (phase = "json_applied" /\ GivenSplit = <<>>) =>
        \A p \in 1..Len(GivenRows[1].parts), m \in 1..(Len(orig[1].measures) + 1) :
            PartStaff(GivenRows[1].parts[p][1])[1] =>
                \E r \in { <<GivenLines, GivenRows[1].parts[p][1],
                              PartStaff(GivenRows[1].parts[p][1])[2]>> } :
                    \A i \in 1..Len(r[1]) :
                        ( /\ r[1][i].measure_start <= m
                          /\ m < NextStart(r[1], i, r[3])
                          /\ ChunkOf(LineSyllables(r[1], i, r[2]), r[3],
                                     r[1][i].measure_start, m) # <<>> ) =>
                            AppliedSyllables(m, r[3]) =
                                ChunkOf(LineSyllables(r[1], i, r[2]), r[3],
                                        r[1][i].measure_start, m)

\* The line "c-d-e" starts at measure 1 and the next line at measure 2;
\* measure 1 of staff 1 has two slots and got "c" and "d" as the token
\* "c-d-": "d", the middle syllable of the word, is applied as a "begin"
\* and a chord of the measure carries it with that role.
C30_Witness ==
    /\ phase = "json_applied" /\ GivenSplit = <<>>
    /\ Len(GivenRows) = 2
    /\ Slots(1, 1) = 2
    /\ Named(by_measure, 1, 1)
    /\ by_measure[1][1] = << <<"c", "-", "d", "-">> >>
    /\ \E i \in 1..Len(GivenLines) :
            /\ GivenLines[i].measure_start = 1
            /\ ChunkOf(LineSyllables(GivenLines, i, <<"1">>), 1, 1, 1) =
                    <<Syl("begin", <<"c">>), Syl("middle", <<"d">>)>>
    /\ AppliedSyllables(1, 1) = <<Syl("begin", <<"c">>), Syl("begin", <<"d">>)>>
    /\ \E e \in 1..Len(score[1].measures[1].voices[1]) :
            /\ score[1].measures[1].voices[1][e].tag = "Chord"
            /\ \E l \in 1..Len(score[1].measures[1].voices[1][e].lyrics) :
                    score[1].measures[1].voices[1][e].lyrics[l] = Lyr(<<>>, "begin", <<"d">>)

====
